---- MODULE Spec2Model ----
(***************************************************************************)
(* PlayoffPurge: the roster-eligibility engine (main.py, models.py), the   *)
(* draft / free-agency mutations over the spreadsheet store, the gateway's *)
(* retrying reads, the rate limiter and the cache (sheets_client.py), and  *)
(* the handlers on the event loop of the server process (main.py), and the *)
(* parsing of raw sheet cells into records (models.py, sheets_client.py).  *)
(***************************************************************************)
EXTENDS Integers, Sequences, FiniteSets, TLC

VARIABLES
    \* ---- roster-eligibility engine, run on its own -----------------------
    roster_players,      \* argument of validate_roster_with_flex
    required_positions,  \* argument of validate_roster_with_flex
    verdict,             \* what the call returned and how it matched
    \* ---- the spreadsheet (remote store) --------------------------------
    Rosters,             \* rows of Rosters!A2:I
    Available_Players,   \* rows of Available_Players!A2:G
    Draft_State,         \* Draft_State!B2:B5
    Draft_Order,         \* rows of Draft_Order!A2:G
    \* ---- requests of the run during which a remote call failed
    faults,
    \* ---- one gateway read (_get_range / _batch_get_ranges) ---------------
    gw_op,               \* which read is running
    attempt,             \* loop variable of the retry loop
    replies,             \* what the remote store answered, call by call
    sleeps,              \* the backoff delays slept, in seconds
    gw_out,              \* how the read ended
    \* ---- the rate limiter and the outbound calls of one operation --------
    client_op,           \* the client operation that is running
    next_call,           \* index of its next outbound call
    elapsed,             \* time.time() - _last_request_time, in ms (capped)
    since_call,          \* ms since the last outbound call was issued (capped)
    gap,                 \* ms between the two most recent outbound calls (capped)
    \* ---- the client's cache ----------------------------------------------
    cache,               \* self._cache: key -> entry
    served,              \* the last call of the client: what it was, what it fetched
    cache_ops,           \* calls of the client made so far
    \* ---- the server process and the requests in flight --------------------
    requests,            \* request id -> what it asks and how far its handler is
    running,             \* the request whose handler holds the event loop, 0 if none
    \* ---- raw cells handed to a parser, and what it made of them ----------
    sheet,               \* the table read and its rows of cells, as delivered
    parse_out            \* the value the accessor or constructor returned

vvars == <<roster_players, required_positions, verdict>>
svars == <<Rosters, Available_Players, Draft_State, Draft_Order, faults>>
gvars == <<gw_op, attempt, replies, sleeps, gw_out>>
lvars == <<client_op, next_call, elapsed, since_call, gap>>
cvars == <<cache, served, cache_ops>>
rvars == <<requests, running>>
pvars == <<sheet, parse_out>>
vars == <<vvars, svars, gvars, lvars, cvars, rvars, pvars>>

\* the parts of the state a specification leaves alone
GatewayIdle ==
    /\ gw_op = "none" /\ attempt = 0 /\ replies = <<>> /\ sleeps = <<>>
    /\ gw_out = [kind |-> "idle"]

LimiterIdle ==
    /\ client_op = "none" /\ next_call = 0
    /\ elapsed = 0 /\ since_call = 0 /\ gap = 0

CacheIdle == cache = <<>> /\ served = <<>> /\ cache_ops = 0

ServerIdle == requests = <<>> /\ running = 0

ParserIdle == sheet = <<>> /\ parse_out = <<>>

IdleBut(part) ==
    /\ IF part = "gateway" THEN TRUE ELSE GatewayIdle
    /\ IF part = "limiter" THEN TRUE ELSE LimiterIdle
    /\ IF part = "cache" THEN TRUE ELSE CacheIdle
    /\ IF part = "server" THEN TRUE ELSE ServerIdle
    /\ IF part = "parser" THEN TRUE ELSE ParserIdle

KeepBut(part) ==
    /\ IF part = "gateway" THEN TRUE ELSE UNCHANGED gvars
    /\ IF part = "limiter" THEN TRUE ELSE UNCHANGED lvars
    /\ IF part = "cache" THEN TRUE ELSE UNCHANGED cvars
    /\ IF part = "server" THEN TRUE ELSE UNCHANGED rvars
    /\ IF part = "parser" THEN TRUE ELSE UNCHANGED pvars

-----------------------------------------------------------------------------
(* Bounds of the engine's inputs *)
MaxSlots == 3
MaxPlayers == 2

SeqsUpTo(S, n) == UNION {[1..k -> S] : k \in 0..n}

RemoveAt(s, i) == SubSeq(s, 1, i - 1) \o SubSeq(s, i + 1, Len(s))

\* list.remove(x): drops the first element equal to x
RECURSIVE FirstIndex(_, _, _)
FirstIndex(s, x, i) ==
    IF i > Len(s) THEN 0
    ELSE IF s[i] = x THEN i ELSE FirstIndex(s, x, i + 1)

ListRemove(s, x) ==
    LET i == FirstIndex(s, x, 1) IN IF i = 0 THEN s ELSE RemoveAt(s, i)

-----------------------------------------------------------------------------
(* models.py: Player / AvailablePlayer *)

\* str.upper() on the tokens that occur in the tables
Upper(s) ==
    CASE s = "qb" -> "QB"
      [] s = "flex" -> "FLEX"
      [] s = "qb/RB" -> "QB/RB"
      [] OTHER -> s

\* str.split("/") on the eligibility tags that occur in the tables
SplitSlash(tag) ==
    CASE tag = "QB/FLEX" -> <<"QB", "FLEX">>
      [] tag = "RB/FLEX" -> <<"RB", "FLEX">>
      [] tag = "WR/FLEX" -> <<"WR", "FLEX">>
      [] tag = "TE/FLEX" -> <<"TE", "FLEX">>
      [] tag = "qb/RB" -> <<"qb", "RB">>
      [] OTHER -> <<tag>>

HasSlash(tag) == tag \in {"QB/FLEX", "RB/FLEX", "WR/FLEX", "TE/FLEX", "qb/RB"}

\* __post_init__: an absent eligibility tag is derived from the position
DefaultEligibility(position) ==
    LET pos == Upper(position) IN
    IF pos \in {"RB", "WR", "TE"} THEN pos \o "/FLEX" ELSE pos

Player(position, player_name, roster_eligibility) ==
    [position |-> position,
     player_name |-> player_name,
     roster_eligibility |->
        IF roster_eligibility = "" THEN DefaultEligibility(position)
        ELSE roster_eligibility]

get_eligible_positions(self) ==
    IF HasSlash(self.roster_eligibility)
    THEN SplitSlash(self.roster_eligibility)
    ELSE <<self.roster_eligibility>>

\* a variant: a tight end does not count for FLEX
can_fill_position_FlexWithoutTE(self, required_position) ==
    LET req_pos == Upper(required_position)
        player_pos == Upper(self.position)
        eligible_positions == get_eligible_positions(self)
    IN  IF req_pos = "SUPERFLEX" THEN player_pos \in {"QB", "RB", "WR", "TE"}
        ELSE IF req_pos = "FLEX" THEN player_pos \in {"RB", "WR"}
        ELSE \E k \in 1..Len(eligible_positions) :
                Upper(eligible_positions[k]) = req_pos

\* a variant: SUPERFLEX takes a candidate of any position
can_fill_position_SuperflexAny(self, required_position) ==
    LET req_pos == Upper(required_position)
        player_pos == Upper(self.position)
        eligible_positions == get_eligible_positions(self)
    IN  IF req_pos = "SUPERFLEX" THEN TRUE
        ELSE IF req_pos = "FLEX" THEN player_pos \in {"RB", "WR", "TE"}
        ELSE \E k \in 1..Len(eligible_positions) :
                Upper(eligible_positions[k]) = req_pos

can_fill_position(self, required_position) ==
    LET req_pos == Upper(required_position)
        player_pos == Upper(self.position)
        eligible_positions == get_eligible_positions(self)
    IN  IF req_pos = "SUPERFLEX" THEN player_pos \in {"QB", "RB", "WR", "TE"}
        ELSE IF req_pos = "FLEX" THEN player_pos \in {"RB", "WR", "TE"}
        ELSE \E k \in 1..Len(eligible_positions) :
                Upper(eligible_positions[k]) = req_pos

-----------------------------------------------------------------------------
(* main.py: validate_roster_with_flex *)

\* a variant: the search forgets which candidates are already assigned
RECURSIVE FirstFit_IgnoringAssigned(_, _, _, _)
FirstFit_IgnoringAssigned(players, assigned, pos, idx) ==
    IF idx > Len(players) THEN 0
    ELSE IF can_fill_position(players[idx], pos) THEN idx
    ELSE FirstFit_IgnoringAssigned(players, assigned, pos, idx + 1)

\* a variant: the search runs from the end of the list
RECURSIVE FirstFit_FromTheEnd(_, _, _, _)
FirstFit_FromTheEnd(players, assigned, pos, idx) ==
    LET i == Len(players) + 1 - idx IN
    IF idx > Len(players) THEN 0
    ELSE IF i \notin assigned /\ can_fill_position(players[i], pos) THEN i
    ELSE FirstFit_FromTheEnd(players, assigned, pos, idx + 1)

\* first index of players, in list order, that is unassigned and can fill pos
RECURSIVE FirstFit(_, _, _, _)
FirstFit(players, assigned, pos, idx) ==
    IF idx > Len(players) THEN 0
    ELSE IF idx \notin assigned /\ can_fill_position(players[idx], pos) THEN idx
    ELSE FirstFit(players, assigned, pos, idx + 1)

\* Phase 1: for pos in required[:] -- every slot that is not FLEX
IsSkippedInPhase1(pos) == Upper(pos) = "FLEX"

RECURSIVE Phase1(_, _, _, _)
Phase1(players, slots, i, st) ==
    IF i > Len(slots) THEN st
    ELSE IF IsSkippedInPhase1(slots[i]) THEN Phase1(players, slots, i + 1, st)
    ELSE LET idx == FirstFit(players, st.assigned, slots[i], 1) IN
         Phase1(players, slots, i + 1,
            [assigned |-> IF idx = 0 THEN st.assigned ELSE st.assigned \cup {idx},
             required |-> IF idx = 0 THEN st.required
                          ELSE ListRemove(st.required, slots[i]),
             log |-> Append(st.log,
                        [phase |-> 1, slot |-> slots[i], player |-> idx])])

\* Phase 2: flex_slots = [pos for pos in required if pos.upper() == "FLEX"]
FlexSlots(required) == SelectSeq(required, LAMBDA pos : Upper(pos) = "FLEX")

RECURSIVE Phase2(_, _, _, _)
Phase2(players, flex_slots, i, st) ==
    IF i > Len(flex_slots) THEN st
    ELSE LET idx == FirstFit(players, st.assigned, "FLEX", 1) IN
         Phase2(players, flex_slots, i + 1,
            [assigned |-> IF idx = 0 THEN st.assigned ELSE st.assigned \cup {idx},
             required |-> IF idx = 0 THEN st.required
                          ELSE ListRemove(st.required, flex_slots[i]),
             log |-> Append(st.log,
                        [phase |-> 2, slot |-> flex_slots[i], player |-> idx])])

Matching(players, slots) ==
    LET s1 == Phase1(players, slots, 1,
                     [assigned |-> {}, required |-> slots, log |-> <<>>])
    IN  Phase2(players, FlexSlots(s1.required), 1, s1)

NoMatching(slots) == [assigned |-> {}, required |-> slots, log |-> <<>>]

\* a variant: a roster smaller than the slot list is rejected for its open slots
validate_roster_RequiringFullRoster(players, slots) ==
    IF Len(players) = 0
    THEN [is_valid |-> TRUE, reason |-> "empty", ran |-> FALSE] @@ NoMatching(slots)
    ELSE IF Len(players) > Len(slots)
    THEN [is_valid |-> FALSE, reason |-> "too_many", ran |-> FALSE] @@ NoMatching(slots)
    ELSE LET m == Matching(players, slots) IN
         IF Cardinality(m.assigned) # Len(players)
         THEN [is_valid |-> FALSE, reason |-> "cannot_fit", ran |-> TRUE] @@ m
         ELSE IF Len(m.required) > 0
         THEN [is_valid |-> FALSE, reason |-> "missing_positions", ran |-> TRUE] @@ m
         ELSE [is_valid |-> TRUE, reason |-> "valid", ran |-> TRUE] @@ m

\* a variant without the count check: the matching runs on any non-empty roster
validate_roster_NoCountCheck(players, slots) ==
    IF Len(players) = 0
    THEN [is_valid |-> TRUE, reason |-> "empty", ran |-> FALSE] @@ NoMatching(slots)
    ELSE LET m == Matching(players, slots) IN
         IF Cardinality(m.assigned) # Len(players)
         THEN [is_valid |-> FALSE, reason |-> "cannot_fit", ran |-> TRUE] @@ m
         ELSE IF Len(players) = Len(slots) /\ Len(m.required) > 0
         THEN [is_valid |-> FALSE, reason |-> "missing_positions", ran |-> TRUE] @@ m
         ELSE [is_valid |-> TRUE, reason |-> "valid", ran |-> TRUE] @@ m

\* a variant: an empty roster is accepted only against an empty slot list
validate_roster_EmptyNeedsNoSlots(players, slots) ==
    IF Len(players) = 0
    THEN [is_valid |-> Len(slots) = 0, reason |-> "empty", ran |-> FALSE]
            @@ NoMatching(slots)
    ELSE IF Len(players) > Len(slots)
    THEN [is_valid |-> FALSE, reason |-> "too_many", ran |-> FALSE] @@ NoMatching(slots)
    ELSE LET m == Matching(players, slots) IN
         IF Cardinality(m.assigned) # Len(players)
         THEN [is_valid |-> FALSE, reason |-> "cannot_fit", ran |-> TRUE] @@ m
         ELSE IF Len(players) = Len(slots) /\ Len(m.required) > 0
         THEN [is_valid |-> FALSE, reason |-> "missing_positions", ran |-> TRUE] @@ m
         ELSE [is_valid |-> TRUE, reason |-> "valid", ran |-> TRUE] @@ m

validate_roster_with_flex(players, slots) ==
    IF Len(players) = 0
    THEN [is_valid |-> TRUE, reason |-> "empty", ran |-> FALSE] @@ NoMatching(slots)
    ELSE IF Len(players) > Len(slots)
    THEN [is_valid |-> FALSE, reason |-> "too_many", ran |-> FALSE] @@ NoMatching(slots)
    ELSE LET m == Matching(players, slots) IN
         IF Cardinality(m.assigned) # Len(players)
         THEN [is_valid |-> FALSE, reason |-> "cannot_fit", ran |-> TRUE] @@ m
         ELSE IF Len(players) = Len(slots) /\ Len(m.required) > 0
         THEN [is_valid |-> FALSE, reason |-> "missing_positions", ran |-> TRUE] @@ m
         ELSE [is_valid |-> TRUE, reason |-> "valid", ran |-> TRUE] @@ m

\* no call of the engine was made
NotCalled == [is_valid |-> FALSE, reason |-> "not_called", ran |-> FALSE,
              assigned |-> {}, required |-> <<>>, log |-> <<>>]

-----------------------------------------------------------------------------
(* The spreadsheet: tables the program only reads *)

CurrentWeek == "Wildcard"

TeamsSheet ==
    <<[team_id |-> 1, owner_name |-> "Ann"], [team_id |-> 2, owner_name |-> "Bob"]>>

Roster_Requirements ==
    <<[week |-> "Wildcard", positions_required |-> "QB, RB, WR, TE, FLEX, SUPERFLEX"]>>

\* [p.strip() for p in positions_required.split(',')]
SplitCommaStrip(s) ==
    CASE s = "QB, RB, WR, TE, FLEX, SUPERFLEX" ->
            <<"QB", "RB", "WR", "TE", "FLEX", "SUPERFLEX">>
      [] OTHER -> <<s>>

\* str.lower() on the week labels, statuses and tokens that occur in the tables
Lower(s) ==
    CASE s = "Wildcard" -> "wildcard"
      [] s = "Week 18" -> "week 18"
      [] s = "WILDCARD" -> "wildcard"
      [] s = "TRUE" -> "true"
      [] s = "True" -> "true"
      [] s = "YES" -> "yes"
      [] s = "Yes" -> "yes"
      [] OTHER -> s

\* next((x for x in xs if test(x)), None): the least of the indices that
\* pass the test, 0 for None
First(hits) ==
    IF hits = {} THEN 0 ELSE CHOOSE i \in hits : \A j \in hits : i <= j

\* the first element of a list whose field has the value
FirstWith(xs, field, value) == First({i \in 1..Len(xs) : xs[i][field] = value})

-----------------------------------------------------------------------------
(* Remote calls that do not deliver: fp is the set of call sites of one     *)
(* request whose remote call fails.  A read that fails inside an accessor   *)
(* yields the accessor's default; the bare _get_range of the player ids     *)
(* either gives up empty-handed (avail_ids) or raises (avail_ids_raise)     *)

ReadSites == {"teams", "meta", "reqs", "rosters", "avail_api",
              "state", "order1", "avail", "avail_ids", "avail_ids_raise",
              "order2"}
WriteSites == {"w_drafted", "w_append", "w_completed", "w_current", "w_state"}
Sites == ReadSites \cup WriteSites

\* at most one call of a request fails
FaultPlans == {{}} \cup {{s} : s \in Sites}

\* requests of a run during which a call fails
MaxFaults == 1

-----------------------------------------------------------------------------
(* sheets_client.py: read accessors (every caller here passes use_cache=False) *)

get_teams(fp) == IF "teams" \in fp THEN <<>> ELSE TeamsSheet

get_league_meta(fp) ==
    IF "meta" \in fp THEN [current_week |-> "Week 18"]
    ELSE [current_week |-> CurrentWeek]

get_roster_requirements(fp) == IF "reqs" \in fp THEN <<>> ELSE Roster_Requirements

NoRequirement == [found |-> FALSE, week |-> "", positions_required |-> ""]

get_roster_requirement_for_week(week, fp) ==
    LET requirements == get_roster_requirements(fp)
        i == First({k \in 1..Len(requirements) :
                        Lower(requirements[k].week) = Lower(week)})
    IN  IF i = 0 THEN NoRequirement
        ELSE [found |-> TRUE] @@ requirements[i]

\* position_order.get(p.position.upper(), 99)
PositionOrder(position) ==
    LET pos == Upper(position) IN
    CASE pos = "QB" -> 0 [] pos = "SUPERFLEX" -> 1 [] pos = "RB" -> 2
      [] pos = "WR" -> 3 [] pos = "TE" -> 4 [] pos = "FLEX" -> 5
      [] pos = "K" -> 6 [] pos = "DST" -> 7 [] pos = "DEF" -> 7
      [] OTHER -> 99

\* list.sort(key=...): stable, by insertion
RECURSIVE InsertByPosition(_, _)
InsertByPosition(sorted, p) ==
    IF sorted = <<>> THEN <<p>>
    ELSE IF PositionOrder(sorted[Len(sorted)].position) <= PositionOrder(p.position)
    THEN Append(sorted, p)
    ELSE Append(InsertByPosition(SubSeq(sorted, 1, Len(sorted) - 1), p),
                sorted[Len(sorted)])

RECURSIVE SortByPosition(_)
SortByPosition(players) ==
    IF players = <<>> THEN <<>>
    ELSE InsertByPosition(SortByPosition(SubSeq(players, 1, Len(players) - 1)),
                          players[Len(players)])

RosterRowPlayer(row) == Player(row.position, row.player_name, row.roster_eligibility)

\* get_rosters_by_week(week).get(team_id, [])
get_rosters_by_week(rosters, week, team_id, fp) ==
    IF "rosters" \in fp THEN <<>>
    ELSE LET rows == SelectSeq(rosters,
                        LAMBDA row : /\ Lower(row.week) = Lower(week)
                                     /\ row.team_id = team_id)
         IN  SortByPosition([i \in 1..Len(rows) |-> RosterRowPlayer(rows[i])])

AvailablePlayer(row) ==
    [player_id |-> row.player_id, status |-> row.status]
        @@ Player(row.position, row.player_name, row.roster_eligibility)

\* a variant that takes every listed player for available
is_available_Always(player) == TRUE

is_available(player) == Lower(player.status) = "available"

get_available_players(available, site, fp) ==
    IF site \in fp THEN <<>>
    ELSE [i \in 1..Len(available) |-> AvailablePlayer(available[i])]

DefaultDraftState ==
    [current_round |-> 1, current_pick |-> 1,
     draft_started |-> FALSE, draft_complete |-> FALSE]

get_draft_state(state, fp) == IF "state" \in fp THEN DefaultDraftState ELSE state

\* a row with fewer than five cells: nothing from the status column on
IsShortRow(row) == row.status = "" /\ row.player_id = "" /\ row.player_name = ""

get_draft_order(order, site, fp) ==
    IF site \in fp THEN <<>>
    ELSE SelectSeq(order, LAMBDA row : ~IsShortRow(row))

is_current(pick) == Lower(pick.status) = "current"

\* a variant: with no entry marked current the last entry is on turn
get_current_pick_LastWhenNone(picks) ==
    LET i == First({k \in 1..Len(picks) : is_current(picks[k])})
    IN  IF i = 0 THEN Len(picks) ELSE i

\* get_current_pick: index in the parsed list of the first current pick, 0 for None
get_current_pick(picks) == First({i \in 1..Len(picks) : is_current(picks[i])})

-----------------------------------------------------------------------------
(* sheets_client.py: make_draft_pick and add_player.  db is the store the   *)
(* call works on; the result carries the store it leaves, the value it      *)
(* returns and the remote calls it issued, in order                         *)

RosterRow(team_id, current_week, player) ==
    [team_id |-> team_id, week |-> current_week, position |-> player.position,
     player_name |-> player.player_name,
     roster_eligibility |-> player.roster_eligibility]

Returned(db, ok, calls) == [db |-> db, ok |-> ok, calls |-> calls]

\* _update_range(f"Available_Players!F{player_row}", [[status]])
WriteStatus(db, player_row, status, site, fp) ==
    IF site \in fp THEN db
    ELSE [db EXCEPT !.Available_Players[player_row].status = status]

\* service.spreadsheets().values().append(range="Rosters!A:I", ...)
AppendRosterRow(db, row) == [db EXCEPT !.Rosters = Append(@, row)]

\* _update_range(f"Draft_Order!E{pick_row}:G{pick_row}", [["completed", id, name]])
WriteCompleted(db, sheet_row, player, fp) ==
    IF "w_completed" \in fp THEN db
    ELSE [db EXCEPT !.Draft_Order[sheet_row].status = "completed",
                    !.Draft_Order[sheet_row].player_id = player.player_id,
                    !.Draft_Order[sheet_row].player_name = player.player_name]

\* _update_range(f"Draft_Order!E{next_pick_row}", [["current"]])
WriteCurrent(db, sheet_row, fp) ==
    IF "w_current" \in fp THEN db
    ELSE [db EXCEPT !.Draft_Order[sheet_row].status = "current"]

\* the round count the completion flag assumes
AssumedRounds == 5

DraftComplete(next_round) == ~(next_round <= AssumedRounds)

\* len(set(p.team_id for p in draft_order if p.round == 1))
TotalPicksPerRound(draft_order) ==
    Cardinality({draft_order[i].team_id :
                    i \in {j \in 1..Len(draft_order) : draft_order[j].round = 1}})

\* step 7: the counters written to Draft_State!B2:B5
AdvancedState(draft_state, draft_order) ==
    LET next_pick == draft_state.current_pick + 1
        wraps == next_pick > TotalPicksPerRound(draft_order)
        next_round == IF wraps THEN draft_state.current_round + 1
                      ELSE draft_state.current_round
    IN  [current_round |-> next_round,
         current_pick |-> IF wraps THEN 1 ELSE next_pick,
         draft_started |-> TRUE,
         draft_complete |-> DraftComplete(next_round)]

WriteState(db, state, fp) ==
    IF "w_state" \in fp THEN db ELSE [db EXCEPT !.Draft_State = state]

\* step 6: the parsed list's index of the current pick is used as sheet row
UpdateDraftOrder(db, draft_order, player, fp) ==
    LET idx == get_current_pick(draft_order) IN
    IF idx = 0 THEN [db |-> db, calls |-> <<>>]
    ELSE LET d1 == WriteCompleted(db, idx, player, fp) IN
         IF idx < Len(draft_order)
         THEN [db |-> WriteCurrent(d1, idx + 1, fp),
               calls |-> <<"w_completed", "w_current">>]
         ELSE [db |-> d1, calls |-> <<"w_completed">>]

\* a variant of the turn check that looks at the team id alone
IsTurnOf_TeamOnly(current_pick, team_id, owner_name) ==
    current_pick.team_id = team_id

\* the turn check of step 2
IsTurnOf(current_pick, team_id, owner_name) ==
    ~(current_pick.team_id # team_id \/ current_pick.owner_name # owner_name)

\* all_rows = self._get_range("Available_Players!A2:A500") and the row search
PlayerRow(db, player_id, fp) ==
    IF "avail_ids" \in fp THEN 0
    ELSE FirstWith(db.Available_Players, "player_id", player_id)

\* a variant of steps 4 to 8 that undoes the status write when the append fails
CommitPick_RollingBack(db, draft_state, player, team_id, current_week, fp) ==
    LET player_row == PlayerRow(db, player.player_id, fp)
        c1 == <<"state", "order1", "avail", "avail_ids">>
        c2 == Append(c1, "w_drafted")
        c3 == Append(c2, "w_append")
    IN
    IF "avail_ids_raise" \in fp \/ player_row = 0 THEN Returned(db, FALSE, c1)
    ELSE IF "w_drafted" \in fp THEN Returned(db, FALSE, c2)
    ELSE IF "w_append" \in fp THEN Returned(db, FALSE, c3)
    ELSE LET d1 == WriteStatus(db, player_row, "drafted", "w_drafted", fp)
             d2 == AppendRosterRow(d1, RosterRow(team_id, current_week, player))
             draft_order == get_draft_order(d2.Draft_Order, "order2", fp)
             d3 == UpdateDraftOrder(d2, draft_order, player, fp)
             d4 == WriteState(d3.db, AdvancedState(draft_state, draft_order), fp)
         IN  Returned(d4, TRUE, c3 \o <<"order2">> \o d3.calls \o <<"w_state">>)

\* steps 4 to 8, once the turn and the player are accepted
CommitPick(db, draft_state, player, team_id, current_week, fp) ==
    LET player_row == PlayerRow(db, player.player_id, fp)
        c1 == <<"state", "order1", "avail", "avail_ids">>
        c2 == Append(c1, "w_drafted")
        c3 == Append(c2, "w_append")
    IN
    IF "avail_ids_raise" \in fp \/ player_row = 0 THEN Returned(db, FALSE, c1)
    ELSE IF "w_drafted" \in fp THEN Returned(db, FALSE, c2)
    ELSE LET d1 == WriteStatus(db, player_row, "drafted", "w_drafted", fp) IN
    IF "w_append" \in fp THEN Returned(d1, FALSE, c3)
    ELSE LET d2 == AppendRosterRow(d1, RosterRow(team_id, current_week, player))
             draft_order == get_draft_order(d2.Draft_Order, "order2", fp)
             d3 == UpdateDraftOrder(d2, draft_order, player, fp)
             d4 == WriteState(d3.db, AdvancedState(draft_state, draft_order), fp)
         IN  Returned(d4, TRUE, c3 \o <<"order2">> \o d3.calls \o <<"w_state">>)

make_draft_pick(db, player_id, team_id, owner_name, current_week, fp) ==
    LET draft_state == get_draft_state(db.Draft_State, fp)
        picks == get_draft_order(db.Draft_Order, "order1", fp)
        current == get_current_pick(picks)
    IN
    IF current = 0 THEN Returned(db, FALSE, <<"state", "order1">>)
    ELSE IF ~IsTurnOf(picks[current], team_id, owner_name)
    THEN Returned(db, FALSE, <<"state", "order1">>)
    ELSE LET all_players == get_available_players(db.Available_Players, "avail", fp)
             p == FirstWith(all_players, "player_id", player_id)
         IN  IF p = 0 \/ ~is_available(all_players[p])
             THEN Returned(db, FALSE, <<"state", "order1", "avail">>)
             ELSE CommitPick(db, draft_state, all_players[p], team_id,
                             current_week, fp)

\* a variant: the pool's status column is not looked at
add_player_AnyStatus(db, team_id, player_id, current_week, fp) ==
    LET all_players == get_available_players(db.Available_Players, "avail", fp)
        p == FirstWith(all_players, "player_id", player_id)
    IN
    IF p = 0 THEN Returned(db, FALSE, <<"avail">>)
    ELSE LET d1 == AppendRosterRow(db,
                        RosterRow(team_id, current_week, all_players[p]))
             player_row == PlayerRow(d1, player_id, fp)
             c1 == <<"avail", "w_append", "avail_ids">>
         IN  IF player_row = 0 THEN Returned(d1, TRUE, c1)
             ELSE Returned(WriteStatus(d1, player_row, "drafted", "w_drafted", fp),
                           TRUE, Append(c1, "w_drafted"))

add_player(db, team_id, player_id, current_week, fp) ==
    LET all_players == get_available_players(db.Available_Players, "avail", fp)
        p == FirstWith(all_players, "player_id", player_id)
    IN
    IF p = 0 \/ ~is_available(all_players[p]) THEN Returned(db, FALSE, <<"avail">>)
    ELSE IF "w_append" \in fp THEN Returned(db, FALSE, <<"avail", "w_append">>)
    ELSE LET d1 == AppendRosterRow(db,
                        RosterRow(team_id, current_week, all_players[p]))
             player_row == PlayerRow(d1, player_id, fp)
             c1 == <<"avail", "w_append", "avail_ids">>
         IN  IF "avail_ids_raise" \in fp THEN Returned(d1, FALSE, c1)
             ELSE IF player_row = 0 THEN Returned(d1, TRUE, c1)
             ELSE Returned(WriteStatus(d1, player_row, "drafted", "w_drafted", fp),
                           TRUE, Append(c1, "w_drafted"))

-----------------------------------------------------------------------------
(* main.py: POST /api/draft/pick and POST /api/fa/add *)

IsWrite(site) == site \in WriteSites

\* the HTTP status and detail, what the validation said, what was done
Response(db, status, check, ok, calls) ==
    [db |-> db, status |-> status,
     detail |-> CASE status = 400 -> check.reason
                  [] status = 404 -> "team_not_found"
                  [] status = 500 -> "failed"
                  [] OTHER -> "success",
     check |-> check.reason, is_valid |-> check.is_valid, ok |-> ok,
     calls |-> calls, writes |-> SelectSeq(calls, IsWrite)]

\* the simulated roster of the request, run through the engine
CheckAddition(db, team_id, player_id, requirement, fp) ==
    LET team_roster == get_rosters_by_week(db.Rosters, requirement.asked_week,
                                           team_id, fp)
        available_players ==
            get_available_players(db.Available_Players, "avail_api", fp)
        p == FirstWith(available_players, "player_id", player_id)
    IN  IF p = 0 THEN NotCalled
        ELSE LET player == available_players[p]
                 simulated_player == Player(player.position, player.player_name,
                                            player.roster_eligibility)
                 simulated_roster == Append(team_roster, simulated_player)
                 slots == SplitCommaStrip(requirement.positions_required)
             IN  validate_roster_with_flex(simulated_roster, slots)

\* the part the two handlers share: resolve the team and the week, validate
Prepared(db, owner_name, player_id, fp) ==
    LET teams == get_teams(fp)
        t == FirstWith(teams, "owner_name", owner_name)
        league_meta == get_league_meta(fp)
        requirement ==
            [asked_week |-> league_meta.current_week]
                @@ get_roster_requirement_for_week(league_meta.current_week, fp)
    IN  [team_found |-> t # 0,
         team_id |-> IF t = 0 THEN 0 ELSE teams[t].team_id,
         current_week |-> league_meta.current_week,
         check |-> IF t # 0 /\ requirement.found
                   THEN CheckAddition(db, teams[t].team_id, player_id,
                                      requirement, fp)
                   ELSE NotCalled,
         calls |-> IF t = 0 THEN <<"teams">>
                   ELSE IF requirement.found
                   THEN <<"teams", "meta", "reqs", "rosters", "avail_api">>
                   ELSE <<"teams", "meta", "reqs">>]

\* a variant that lets every verdict through
Rejected_Never(check) == FALSE

Rejected(check) == check.reason # "not_called" /\ ~check.is_valid

make_draft_pick_api(db, owner_name, player_id, fp) ==
    LET pre == Prepared(db, owner_name, player_id, fp) IN
    IF ~pre.team_found THEN Response(db, 404, NotCalled, FALSE, pre.calls)
    ELSE IF Rejected(pre.check)
    THEN Response(db, 400, pre.check, FALSE, pre.calls)
    ELSE LET r == make_draft_pick(db, player_id, pre.team_id, owner_name,
                                  pre.current_week, fp)
         IN  Response(r.db, IF r.ok THEN 200 ELSE 500, pre.check, r.ok,
                      pre.calls \o r.calls)

add_player_api(db, owner_name, player_id, fp) ==
    LET pre == Prepared(db, owner_name, player_id, fp) IN
    IF ~pre.team_found THEN Response(db, 404, NotCalled, FALSE, pre.calls)
    ELSE IF Rejected(pre.check)
    THEN Response(db, 400, pre.check, FALSE, pre.calls)
    ELSE LET r == add_player(db, pre.team_id, player_id, pre.current_week, fp)
         IN  Response(r.db, IF r.ok THEN 200 ELSE 500, pre.check, r.ok,
                      pre.calls \o r.calls)

-----------------------------------------------------------------------------
(* The league the requests run on: a snake draft of total_rounds rounds,    *)
(* the first `done` picks already made                                      *)

total_rounds == 6

NumTeams == Len(TeamsSheet)

EntryRound(e) == ((e - 1) \div NumTeams) + 1
EntryPick(e) == ((e - 1) % NumTeams) + 1
EntryTeam(e) ==
    TeamsSheet[IF EntryRound(e) % 2 = 1 THEN EntryPick(e)
               ELSE NumTeams + 1 - EntryPick(e)]

\* players drafted before the run starts, one per completed pick
DraftedIds == <<"d1", "d2", "d3", "d4", "d5", "d6", "d7", "d8", "d9", "d10">>
DraftedPosition(e) == <<"QB", "RB", "WR", "TE", "QB">>[EntryRound(e)]

\* players still in the pool
FreePlayers ==
    <<[player_id |-> "p1", player_name |-> "W. Out", position |-> "WR",
       status |-> "available", roster_eligibility |-> ""],
      [player_id |-> "p2", player_name |-> "R. Back", position |-> "RB",
       status |-> "available", roster_eligibility |-> ""],
      [player_id |-> "p3", player_name |-> "K. Icker", position |-> "K",
       status |-> "available", roster_eligibility |-> ""]>>

StartPoints == {0, Len(DraftedIds)}

OrderRow(e, done) ==
    [round |-> EntryRound(e), pick |-> EntryPick(e),
     team_id |-> EntryTeam(e).team_id, owner_name |-> EntryTeam(e).owner_name,
     status |-> IF e <= done THEN "completed"
                ELSE IF e = done + 1 THEN "current" ELSE "upcoming",
     player_id |-> IF e <= done THEN DraftedIds[e] ELSE "",
     player_name |-> IF e <= done THEN DraftedIds[e] ELSE ""]

\* a label row of one cell; 0 stands for a cell that holds no number
DividerRow ==
    [round |-> 0, pick |-> 0, team_id |-> 0, owner_name |-> "",
     status |-> "", player_id |-> "", player_name |-> ""]

OrderSheet(done, divider) ==
    LET rows == [e \in 1..(total_rounds * NumTeams) |-> OrderRow(e, done)] IN
    IF divider
    THEN SubSeq(rows, 1, done) \o <<DividerRow>> \o SubSeq(rows, done + 1, Len(rows))
    ELSE rows

StoreAt(done, divider) ==
    [Rosters |->
        [e \in 1..done |->
            [team_id |-> EntryTeam(e).team_id, week |-> CurrentWeek,
             position |-> DraftedPosition(e), player_name |-> DraftedIds[e],
             roster_eligibility |-> DefaultEligibility(DraftedPosition(e))]],
     Available_Players |->
        [e \in 1..done |->
            [player_id |-> DraftedIds[e], player_name |-> DraftedIds[e],
             position |-> DraftedPosition(e), status |-> "drafted",
             roster_eligibility |-> ""]] \o FreePlayers,
     Draft_State |->
        [current_round |-> EntryRound(done + 1),
         current_pick |-> EntryPick(done + 1),
         draft_started |-> done > 0,
         draft_complete |-> done > 0 /\ DraftComplete(EntryRound(done + 1))],
     Draft_Order |-> OrderSheet(done, divider)]

Store == [Rosters |-> Rosters, Available_Players |-> Available_Players,
          Draft_State |-> Draft_State, Draft_Order |-> Draft_Order]

StoreIs(db) ==
    /\ Rosters = db.Rosters
    /\ Available_Players = db.Available_Players
    /\ Draft_State = db.Draft_State
    /\ Draft_Order = db.Draft_Order

EngineIdle ==
    roster_players = <<>> /\ required_positions = <<>> /\ verdict = NotCalled

StoreIdle == StoreIs(StoreAt(0, FALSE)) /\ faults = 0

Owners == {"Ann", "Bob", "Zed"}
PlayerIds == {"p1", "p2", "p3", "d1"}

Init ==
    /\ \E done \in StartPoints, divider \in BOOLEAN : StoreIs(StoreAt(done, divider))
    /\ faults = 0
    /\ roster_players = <<>>
    /\ required_positions = <<>>
    /\ verdict = NotCalled
    /\ IdleBut("store")

\* the call a fault plan's site stands for
CallOf(site) == IF site = "avail_ids_raise" THEN "avail_ids" ELSE site

\* a call of the request did fail
Struck(r, fp) == \E s \in fp : \E i \in 1..Len(r.calls) : r.calls[i] = CallOf(s)

\* the fault plans a request can still meet
Plans == IF faults < MaxFaults THEN FaultPlans ELSE {{}}

\* one request served from arrival to response
Serve(r, fp) ==
    /\ Rosters' = r.db.Rosters
    /\ Available_Players' = r.db.Available_Players
    /\ Draft_State' = r.db.Draft_State
    /\ Draft_Order' = r.db.Draft_Order
    /\ faults' = IF Struck(r, fp) THEN faults + 1 ELSE faults
    /\ UNCHANGED vvars
    /\ KeepBut("store")

MakeDraftPickApi ==
    \E owner_name \in Owners, player_id \in PlayerIds, fp \in Plans :
        Serve(make_draft_pick_api(Store, owner_name, player_id, fp), fp)

AddPlayerApi ==
    \E owner_name \in Owners, player_id \in PlayerIds, fp \in Plans :
        Serve(add_player_api(Store, owner_name, player_id, fp), fp)

Next == MakeDraftPickApi \/ AddPlayerApi

Spec == Init /\ [][Next]_vars
-----------------------------------------------------------------------------
(* The engine on its own: every slot list and candidate list within bounds *)

SlotNames == {"QB", "RB", "WR", "TE", "K", "FLEX", "SUPERFLEX"}

\* candidates as the table rows give them: position and eligibility column
PlayerKinds ==
    {Player(pos, pos, "") : pos \in {"QB", "RB", "WR", "TE", "K"}}
    \cup {Player("QB", "QB2", "qb/RB"), Player("TE", "TE2", "WR/FLEX")}

\* a week's lineup of four slots and the rosters of one quarterback, running
\* back, wide receiver and tight end, in every order
LineupSlots == <<"QB", "RB", "WR", "FLEX">>

Lineups ==
    {roster \in [1..4 -> {Player(pos, pos, "") : pos \in {"QB", "RB", "WR", "TE"}}] :
        \A i, j \in 1..4 : i # j => roster[i] # roster[j]}

\* a row whose eligibility column is filled in by hand, whatever its position
\* column holds, validated on its own against one slot
TaggedKinds == {Player(pos, pos, "WR/FLEX") : pos \in {"QB", "RB", "WR", "TE", "K"}}

VInit ==
    /\ \/ /\ roster_players \in SeqsUpTo(PlayerKinds, MaxPlayers)
          /\ required_positions \in SeqsUpTo(SlotNames, MaxSlots)
       \/ /\ roster_players \in Lineups
          /\ required_positions = LineupSlots
       \/ /\ roster_players \in {<<p>> : p \in TaggedKinds}
          /\ required_positions \in {<<pos>> : pos \in SlotNames}
    /\ verdict = NotCalled
    /\ StoreIs(StoreAt(0, FALSE))
    /\ faults = 0
    /\ IdleBut("engine")

Validate ==
    /\ verdict.reason = "not_called"
    /\ verdict' = validate_roster_with_flex(roster_players, required_positions)
    /\ UNCHANGED <<roster_players, required_positions, svars>>
    /\ KeepBut("engine")

VNext == Validate

SpecValidate == VInit /\ [][VNext]_vars

-----------------------------------------------------------------------------
(* Vocabulary of the claims about the engine *)

Called == verdict.reason # "not_called"

IsWildcard(pos) == Upper(pos) \in {"FLEX", "SUPERFLEX"}

ConcreteOnly(slots) == \A i \in 1..Len(slots) : ~IsWildcard(slots[i])

HasDefaultTag(p) == p.roster_eligibility = DefaultEligibility(p.position)

DefaultTags(players) == \A i \in 1..Len(players) : HasDefaultTag(players[i])

Injective(f) == \A a, b \in DOMAIN f : a # b => f[a] # f[b]

\* a one-to-one mapping of the candidates to slots of their own position
ExactMapping(players, slots) ==
    \E f \in [1..Len(players) -> 1..Len(slots)] :
        /\ Injective(f)
        /\ \A i \in 1..Len(players) : Upper(players[i].position) = Upper(slots[f[i]])

\* the candidates the run assigned, and the slots it left pending
AssignedByRun == {verdict.log[k].player : k \in 1..Len(verdict.log)} \ {0}
EveryCandidateAssigned == AssignedByRun = 1..Len(roster_players)
EverySlotFilled == verdict.required = <<>>

\* C1 as stated: on concrete-only slot lists validation succeeds iff the
\* candidates map one-to-one onto the slots by exact position equality and
\* the candidate count equals the slot count.
C1_ExactIffEqualCounts ==
    (Called /\ ConcreteOnly(required_positions)) =>
        (verdict.is_valid <=>
            (/\ Len(roster_players) = Len(required_positions)
             /\ ExactMapping(roster_players, required_positions)))

\* C1 as amended: on concrete-only slot lists, with candidates carrying the
\* default eligibility tag of their position, validation succeeds iff the
\* candidates map one-to-one into the slots by exact position equality; the
\* candidate count may be smaller than the slot count.
C1_ExactIffInjective ==
    (Called /\ ConcreteOnly(required_positions) /\ DefaultTags(roster_players)) =>
        (verdict.is_valid <=> ExactMapping(roster_players, required_positions))

C1_Witness ==
    /\ Called
    /\ ConcreteOnly(required_positions)
    /\ DefaultTags(roster_players)
    /\ Len(roster_players) = 2
    /\ Len(required_positions) = 3
    /\ verdict.is_valid
    /\ verdict.reason = "valid"

\* C2 as stated: for a non-empty candidate list, valid iff every required
\* slot got filled, every candidate got assigned and the candidate count does
\* not exceed the slot count.
C2_ValidIffAllSlotsFilled ==
    (Called /\ Len(roster_players) > 0) =>
        (verdict.is_valid <=>
            (/\ EverySlotFilled
             /\ EveryCandidateAssigned
             /\ Len(roster_players) <= Len(required_positions)))

\* C2 as amended: for a non-empty candidate list, valid iff every candidate
\* got assigned and the candidate count does not exceed the slot count; slots
\* may stay unfilled while the roster is smaller than the slot list, and a
\* valid roster as long as the slot list has every slot filled.
C2_ValidIffAllCandidatesAssigned ==
    (Called /\ Len(roster_players) > 0) =>
        /\ verdict.is_valid <=>
              (/\ EveryCandidateAssigned
               /\ Len(roster_players) <= Len(required_positions))
        /\ (verdict.is_valid /\ Len(roster_players) = Len(required_positions))
              => EverySlotFilled
        /\ (verdict.is_valid /\ Len(roster_players) < Len(required_positions))
              => ~EverySlotFilled

C2_Witness ==
    /\ Called
    /\ Len(roster_players) = 1
    /\ Len(required_positions) = 2
    /\ verdict.is_valid
    /\ ~EverySlotFilled
    /\ EveryCandidateAssigned

\* C3: every non-wildcard slot is offered to the candidates before any FLEX
\* or SUPERFLEX slot is matched, so no candidate is consumed by a FLEX or
\* SUPERFLEX slot while a concrete slot listed after it is still unprocessed:
\* in the order the run processed the slots, no concrete slot follows a
\* wildcard slot that took a candidate.
C3_WildcardsAfterConcrete ==
    Called =>
        \A k \in 1..Len(verdict.log) :
            (IsWildcard(verdict.log[k].slot) /\ verdict.log[k].player # 0) =>
                \A j \in 1..Len(verdict.log) :
                    ~IsWildcard(verdict.log[j].slot) => j < k


-----------------------------------------------------------------------------
(* Claims about the engine on particular rosters *)

\* C24: validate_roster_with_flex fails for every candidate list whose
\* length exceeds the length of the required-slot list, regardless of the
\* candidates' positions and eligibility tags: it fails at the count check,
\* before any matching is tried.
C24_TooManyCandidatesFails ==
    (Called /\ Len(roster_players) > Len(required_positions)) =>
        /\ ~verdict.is_valid
        /\ verdict.reason = "too_many"
        /\ ~verdict.ran

\* two candidates against one slot that the first of them could fill
C24_Witness ==
    /\ Called
    /\ Len(roster_players) = 2
    /\ Len(required_positions) = 1
    /\ can_fill_position(roster_players[1], required_positions[1])
    /\ ~verdict.is_valid
    /\ verdict.reason = "too_many"

\* C25: validate_roster_with_flex succeeds for the empty candidate list
\* against every required-slot list (including the empty one).
C25_EmptyRosterValid ==
    (Called /\ roster_players = <<>>) => verdict.is_valid

\* the empty roster accepted against a slot list of MaxSlots slots
C25_Witness ==
    /\ Called
    /\ roster_players = <<>>
    /\ Len(required_positions) = MaxSlots
    /\ verdict.is_valid

\* the log entry of the slot that took candidate idx
TakenBy(idx) == {k \in 1..Len(verdict.log) : verdict.log[k].player = idx}

\* C26: for the slot list [QB, RB, WR, FLEX] and one candidate each of
\* position QB, RB, WR and TE with their default eligibility tags,
\* validation succeeds with the TE filling FLEX, in whatever order the four
\* candidates are listed.
C26_LineupValidTEFillsFlex ==
    (Called /\ required_positions = LineupSlots /\ roster_players \in Lineups) =>
        /\ verdict.is_valid
        /\ \A idx \in 1..4 :
              roster_players[idx].position = "TE" =>
                  /\ TakenBy(idx) # {}
                  /\ \A k \in TakenBy(idx) : verdict.log[k].slot = "FLEX"

\* the lineup validated with the tight end listed first
C26_Witness ==
    /\ Called
    /\ required_positions = LineupSlots
    /\ roster_players \in Lineups
    /\ roster_players[1].position = "TE"
    /\ verdict.is_valid
    /\ verdict.required = <<>>

Offensive(p) == Upper(p.position) \in {"QB", "RB", "WR", "TE"}

\* C27: for the slot list [SUPERFLEX] and a single candidate of position K,
\* validation fails: a candidate whose position is not one of QB/RB/WR/TE
\* never fills a SUPERFLEX slot.
C27_KickerNotSuperflex ==
    Called =>
        /\ (/\ required_positions = <<"SUPERFLEX">>
            /\ Len(roster_players) = 1
            /\ roster_players[1].position = "K") => ~verdict.is_valid
        /\ \A k \in 1..Len(verdict.log) :
              (verdict.log[k].slot = "SUPERFLEX" /\ verdict.log[k].player # 0)
                  => Offensive(roster_players[verdict.log[k].player])

C27_Witness ==
    /\ Called
    /\ required_positions = <<"SUPERFLEX">>
    /\ Len(roster_players) = 1
    /\ roster_players[1].position = "K"
    /\ ~verdict.is_valid
    /\ verdict.reason = "cannot_fit"

\* a complete one-to-one assignment of the candidates to slots they are
\* eligible for
CompleteAssignment(players, slots) ==
    \E f \in [1..Len(players) -> 1..Len(slots)] :
        /\ Injective(f)
        /\ \A i \in 1..Len(players) : can_fill_position(players[i], slots[f[i]])

\* the candidates taken by the slots processed before the k-th
TakenBefore(k) == {verdict.log[j].player : j \in 1..(k - 1)}

\* the first candidate in list order that is still free and eligible
FirstEligible(slot, taken) ==
    LET free == {i \in 1..Len(roster_players) :
                    i \notin taken /\ can_fill_position(roster_players[i], slot)}
    IN  IF free = {} THEN 0 ELSE CHOOSE i \in free : \A j \in free : i <= j

\* C28: matching never backtracks: every slot is processed once, it takes the
\* first candidate in list order that is eligible and not yet taken, and no
\* earlier choice is revised; so there exist a slot list and a candidate list
\* for which a complete one-to-one assignment of candidates to slots they are
\* eligible for exists, yet validate_roster_with_flex reports invalid.
C28_GreedyNeverBacktracks ==
    (Called /\ verdict.ran) =>
        /\ Len(verdict.log) = Len(required_positions)
        /\ \A k \in 1..Len(verdict.log) :
              verdict.log[k].player = FirstEligible(verdict.log[k].slot, TakenBefore(k))
        /\ verdict.assigned = {verdict.log[k].player : k \in 1..Len(verdict.log)} \ {0}
        /\ verdict.is_valid => Cardinality(verdict.assigned) = Len(roster_players)

\* a roster with a complete assignment that the run reports invalid
C28_Witness ==
    /\ Called
    /\ Len(roster_players) = Len(required_positions)
    /\ CompleteAssignment(roster_players, required_positions)
    /\ ~verdict.is_valid
    /\ verdict.reason = "cannot_fit"

-----------------------------------------------------------------------------
(* The eligibility tag of a row and the slots it fills *)

ExplicitlyTagged(p) == p.roster_eligibility = "WR/FLEX"

\* C31: a Player or AvailablePlayer constructed with the explicit
\* roster_eligibility "WR/FLEX" reports get_eligible_positions() = [WR, FLEX],
\* can_fill_position(FLEX) = true and can_fill_position(QB) = false, for
\* every value of its position field.
C31_TagDecidesFlex ==
    Called => \A i \in 1..Len(roster_players) :
        ExplicitlyTagged(roster_players[i]) =>
            /\ get_eligible_positions(roster_players[i]) = <<"WR", "FLEX">>
            /\ can_fill_position(roster_players[i], "FLEX")
            /\ ~can_fill_position(roster_players[i], "QB")
-----------------------------------------------------------------------------
(* Vocabulary of the claims about draft picks and free-agency adds: what   *)
(* every request and every client call does on the store as it stands      *)

\* the requests that can arrive, <<owner_name, player_id, fp>>, and the
\* answers the two endpoints give them on the present store
Requests == Owners \X PlayerIds \X Plans

PickAnswer(q) == make_draft_pick_api(Store, q[1], q[2], q[3])

AddAnswer(q) == add_player_api(Store, q[1], q[2], q[3])

\* calls of the client's make_draft_pick: <<team_id, owner_name, player_id, fp>>
TeamIds == {TeamsSheet[i].team_id : i \in 1..Len(TeamsSheet)} \cup {0}

PickCalls == TeamIds \X Owners \X PlayerIds \X Plans

Pick(c) == make_draft_pick(Store, c[3], c[1], c[2], CurrentWeek, c[4])

WritesOf(r) == SelectSeq(r.calls, IsWrite)

\* the draft order as a read that succeeds delivers it, and the entry on
\* turn: the first one marked current
ParsedOrder == SelectSeq(Draft_Order, LAMBDA row : ~IsShortRow(row))

CurrentEntries == {i \in 1..Len(ParsedOrder) : ParsedOrder[i].status = "current"}

TurnHolder ==
    IF CurrentEntries = {} THEN [found |-> FALSE, team_id |-> 0, owner_name |-> ""]
    ELSE LET i == CHOOSE k \in CurrentEntries : \A j \in CurrentEntries : k <= j
         IN  [found |-> TRUE, team_id |-> ParsedOrder[i].team_id,
              owner_name |-> ParsedOrder[i].owner_name]

OnTurn(turn, team_id, owner_name) ==
    turn.found /\ turn.team_id = team_id /\ turn.owner_name = owner_name

\* the player's row in the pool, and whether it says available
PoolRows(player_id) ==
    {i \in 1..Len(Available_Players) : Available_Players[i].player_id = player_id}

CanBeTaken(player_id) ==
    /\ PoolRows(player_id) # {}
    /\ \A i \in PoolRows(player_id) : Available_Players[i].status = "available"

\* the players of the requests that the pool lists as available
Takeable == {player_id \in PlayerIds : CanBeTaken(player_id)}

PlayerName(player_id) ==
    Available_Players[CHOOSE i \in PoolRows(player_id) : TRUE].player_name

\* a pick or an add of this run has reached the store
SomethingCommitted ==
    \E i \in 1..Len(Rosters), k \in 1..Len(FreePlayers) :
        Rosters[i].player_name = FreePlayers[k].player_name

\* sheet rows of the draft order that hold an entry, in list order
EntryRows == {i \in 1..Len(Draft_Order) : ~IsShortRow(Draft_Order[i])}

CurrentRow ==
    CHOOSE i \in EntryRows :
        /\ Draft_Order[i].status = "current"
        /\ \A j \in EntryRows : Draft_Order[j].status = "current" => i <= j

HasNextRow == \E j \in EntryRows : j > CurrentRow

NextRow ==
    CHOOSE j \in EntryRows : j > CurrentRow /\ \A k \in EntryRows : k > CurrentRow => j <= k

\* teams with an entry in round 1
RoundOneTeams ==
    Cardinality({Draft_Order[i].team_id :
                    i \in {j \in EntryRows : Draft_Order[j].round = 1}})

-----------------------------------------------------------------------------
(* Claims about the two endpoints *)

\* a write only after a validation that ran and passed
WritesValidated(r) == r.writes # <<>> => (r.check # "not_called" /\ r.is_valid)

\* a rejected roster: status 400, the reason as detail, nothing written
RejectedCleanly(r) ==
    (r.check # "not_called" /\ ~r.is_valid) =>
        /\ r.status = 400
        /\ r.detail = r.check
        /\ r.detail \in {"too_many", "cannot_fit", "missing_positions"}
        /\ r.writes = <<>>
        /\ r.db = Store

\* C4: every draft pick and every free-agency add that writes to the store
\* was preceded, in the same request, by a run of the eligibility validation
\* that passed: no request issues a write unless its validation ran and
\* returned valid.
C4_WritesOnlyAfterValidation ==
    \A q \in Requests : WritesValidated(PickAnswer(q)) /\ WritesValidated(AddAnswer(q))

\* C5: when the eligibility validation rejects the simulated roster of a
\* draft pick or free-agency add, the request fails (status 400) with the
\* validation reason as its detail, no write has been issued and the store
\* is as it was.
C5_RejectionWritesNothing ==
    \A q \in Requests : RejectedCleanly(PickAnswer(q)) /\ RejectedCleanly(AddAnswer(q))

\* after a pick or add of this run, a pick and an add are both rejected
C5_Witness ==
    /\ SomethingCommitted
    /\ \E q \in Requests :
          PickAnswer(q).status = 400 /\ PickAnswer(q).detail = "cannot_fit"
    /\ \E q \in Requests :
          AddAnswer(q).status = 400 /\ AddAnswer(q).detail = "cannot_fit"

-----------------------------------------------------------------------------
(* Claims about make_draft_pick *)

\* C6: make_draft_pick issues remote writes only if the requesting team_id
\* and owner_name both equal those of the draft-order entry marked current
\* (the first such entry); a pick by any other team or owner is not accepted.
C6_TurnLegality ==
    LET turn == TurnHolder IN
    \A c \in PickCalls :
        LET r == Pick(c)
            on_turn == OnTurn(turn, c[1], c[2])
        IN  IF on_turn THEN r.ok => WritesOf(r) # <<>>
            ELSE ~r.ok /\ WritesOf(r) = <<>> /\ r.db = Store

\* after a pick of this run, the owner on turn is served and the same team
\* under another owner's name is refused
C6_Witness ==
    /\ SomethingCommitted
    /\ \E c \in PickCalls, d \in PickCalls :
        /\ c[3] = d[3] /\ c[4] = {} /\ d[4] = {}
        /\ c[1] = d[1] /\ c[2] # d[2]
        /\ OnTurn(TurnHolder, c[1], c[2])
        /\ Pick(c).ok /\ WritesOf(Pick(c)) # <<>>
        /\ ~Pick(d).ok /\ WritesOf(Pick(d)) = <<>>

\* C7: when there is no current pick, or the caller is not the team and
\* owner of the current pick, or the player is absent from the pool or not
\* available, make_draft_pick returns failure, has issued no write and leaves
\* the store as it was.
C7_ReadOnlyFailure ==
    LET turn == TurnHolder
        takeable == Takeable
    IN  \A c \in PickCalls :
            (~OnTurn(turn, c[1], c[2]) \/ c[3] \notin takeable) =>
                LET r == Pick(c) IN
                /\ ~r.ok
                /\ WritesOf(r) = <<>>
                /\ r.db = Store

\* the draft is over, nobody is on turn, and a call for a free player fails
C7_Witness ==
    /\ SomethingCommitted
    /\ ~TurnHolder.found
    /\ \E c \in PickCalls :
        /\ c[4] = {}
        /\ CanBeTaken(c[3])
        /\ ~Pick(c).ok /\ WritesOf(Pick(c)) = <<>>
    /\ \E c \in PickCalls : PoolRows(c[3]) # {} /\ ~CanBeTaken(c[3])

\* C8: after a successful make_draft_pick the draft-order entry that was
\* current is completed and carries the drafted player's id and name, the
\* entry immediately following it in list order (if any) is current, and no
\* other entry's status has changed.
C8_OrderAdvances ==
    \A c \in PickCalls :
        LET r == Pick(c)
            after == r.db.Draft_Order
        IN  r.ok =>
            /\ after[CurrentRow].status = "completed"
            /\ after[CurrentRow].player_id = c[3]
            /\ after[CurrentRow].player_name = PlayerName(c[3])
            /\ HasNextRow => after[NextRow].status = "current"
            /\ \A i \in 1..Len(Draft_Order) :
                  (i # CurrentRow /\ (HasNextRow => i # NextRow)) =>
                      after[i].status = Draft_Order[i].status

\* C9: after a successful make_draft_pick the stored pick counter is the
\* previous pick counter plus one, unless that exceeds the number of distinct
\* teams with a round-1 entry in the draft order, in which case the stored
\* pick counter is 1 and the stored round counter is the previous round
\* plus one.
C9_CountersAdvance ==
    \A c \in PickCalls :
        LET r == Pick(c)
            after == r.db.Draft_State
        IN  r.ok =>
            IF Draft_State.current_pick + 1 > RoundOneTeams
            THEN /\ after.current_pick = 1
                 /\ after.current_round = Draft_State.current_round + 1
            ELSE after.current_pick = Draft_State.current_pick + 1

\* C10: after a successful make_draft_pick the stored draft_complete is true
\* exactly when the stored (advanced) round counter is greater than the total
\* number of rounds of the draft.
C10_CompleteIffPastLastRound ==
    \A c \in PickCalls :
        LET r == Pick(c)
            after == r.db.Draft_State
        IN  r.ok => (after.draft_complete <=> after.current_round > total_rounds)

-----------------------------------------------------------------------------
(* Claims about the draft status over a run *)

\* C11: the draft status is monotonic over any sequence of operations: once
\* draft_started is true it never becomes false, once draft_complete is true
\* it never becomes false, and the round counter never decreases.
C11_StatusMonotonic ==
    [][/\ Draft_State.draft_started => Draft_State'.draft_started
       /\ Draft_State.draft_complete => Draft_State'.draft_complete
       /\ Draft_State'.current_round >= Draft_State.current_round]_vars

-----------------------------------------------------------------------------
(* Mutations that fail half-way: what the store holds afterwards *)

\* the remote calls that follow the first write of a pick and of an add
StepsAfterMark == {"w_append", "order2", "w_completed", "w_current", "w_state"}

StepsAfterAppend == {"avail_ids", "avail_ids_raise", "w_drafted"}

\* calls of the client's add_player during which one of them fails:
\* <<team_id, player_id, fp>>
AddCalls == TeamIds \X PlayerIds \X {{s} : s \in StepsAfterAppend}

AnyPickCalls == TeamIds \X Owners \X PlayerIds \X {{s} : s \in StepsAfterMark}

\* the write was issued and went through
Applied(r, site, fp) ==
    site \notin fp /\ \E i \in 1..Len(r.calls) : r.calls[i] = site

FirstPoolRow(player_id) ==
    CHOOSE i \in PoolRows(player_id) : \A j \in PoolRows(player_id) : i <= j

OnARoster(db, player_name) ==
    \E i \in 1..Len(db.Rosters) : db.Rosters[i].player_name = player_name

DraftedOnNoRoster(db) ==
    \E i \in 1..Len(db.Available_Players) :
        /\ db.Available_Players[i].status = "drafted"
        /\ ~OnARoster(db, db.Available_Players[i].player_name)

OnRosterStillAvailable(db) ==
    \E i \in 1..Len(db.Available_Players) :
        /\ db.Available_Players[i].status = "available"
        /\ OnARoster(db, db.Available_Players[i].player_name)

\* a pick that fails after the player was marked drafted leaves the mark
PickLeavesMark(c) ==
    LET r == make_draft_pick(Store, c[3], c[1], c[2], CurrentWeek, c[4])
        row == FirstPoolRow(c[3])
    IN  (~r.ok /\ Applied(r, "w_drafted", c[4])) =>
            /\ Available_Players[row].status = "available"
            /\ r.db = [Store EXCEPT !.Available_Players[row].status = "drafted"]
            /\ ~OnARoster(Store, Available_Players[row].player_name)
                    => DraftedOnNoRoster(r.db)

\* an add that fails after the roster row was appended leaves the row
AddLeavesRow(c) ==
    LET r == add_player(Store, c[1], c[2], CurrentWeek, c[3])
        row == FirstPoolRow(c[2])
    IN  (~r.ok /\ Applied(r, "w_append", c[3])) =>
            /\ Len(r.db.Rosters) = Len(Rosters) + 1
            /\ SubSeq(r.db.Rosters, 1, Len(Rosters)) = Rosters
            /\ r.db.Rosters[Len(r.db.Rosters)].team_id = c[1]
            /\ r.db.Rosters[Len(r.db.Rosters)].player_name
                    = Available_Players[row].player_name
            /\ r.db.Available_Players = Available_Players
            /\ OnRosterStillAvailable(r.db)

\* C21: a mutation that fails after a partial remote write is not rolled
\* back: the player marked drafted by a failed make_draft_pick stays marked
\* (drafted, on no roster), the row appended by a failed add_player stays in
\* Rosters (on a roster, still available)
C21_NoRollback ==
    /\ \A c \in AnyPickCalls : PickLeavesMark(c)
    /\ \A c \in AddCalls : AddLeavesRow(c)

\* a failed pick has been served and left a player drafted on no roster,
\* and the present store is one where a failing add leaves a row behind
C21_Witness ==
    /\ faults > 0
    /\ DraftedOnNoRoster(Store)
    /\ \E c \in AddCalls :
          LET r == add_player(Store, c[1], c[2], CurrentWeek, c[3])
          IN  ~r.ok /\ Applied(r, "w_append", c[3]) /\ OnRosterStillAvailable(r.db)

-----------------------------------------------------------------------------
(* What a successful pick has written *)

\* C34: make_draft_pick returns success only if each of its remote writes
\* succeeded: the player marked drafted, the roster row appended, the
\* current draft-order entry marked completed, the next entry (if any)
\* marked current, and the draft state advanced.
C34_SuccessMeansAllWritten ==
    \A c \in PickCalls :
        LET r == Pick(c) IN
        r.ok =>
            /\ Applied(r, "w_drafted", c[4])
            /\ Applied(r, "w_append", c[4])
            /\ Applied(r, "w_completed", c[4])
            /\ HasNextRow => Applied(r, "w_current", c[4])
            /\ Applied(r, "w_state", c[4])

\* entries of a draft order marked current
CurrentCount(order) ==
    Cardinality({i \in 1..Len(order) : Lower(order[i].status) = "current"})

\* C36: make_draft_pick writes completed to the Draft_Order sheet row that
\* holds the entry marked current and current to the sheet row directly
\* below it, for every content of the Draft_Order table, including tables
\* where earlier rows have fewer than five cells; so starting from exactly
\* one current entry, at most one entry is current after a pick.
C36_CompletedLandsOnCurrentRow ==
    \A c \in PickCalls :
        LET r == Pick(c)
            after == r.db.Draft_Order
        IN  (c[4] = {} /\ r.ok) =>
            /\ after[CurrentRow].status = "completed"
            /\ CurrentRow < Len(Draft_Order) => after[CurrentRow + 1].status = "current"
            /\ CurrentCount(Draft_Order) = 1 => CurrentCount(after) <= 1

-----------------------------------------------------------------------------
(* The draft once its last entry is completed *)

NoEntryCurrent ==
    \A i \in 1..Len(Draft_Order) : Lower(Draft_Order[i].status) # "current"

EveryEntryCompleted ==
    \A i \in EntryRows : Draft_Order[i].status = "completed"

\* C38: once every draft-order entry is completed (no entry is marked
\* current), every later make_draft_pick fails and issues no remote write:
\* whoever calls, for whichever player, whichever remote call fails, the draft
\* order, the rosters, the player statuses and the draft state are after the
\* call what they were before it, so no entry becomes current again under
\* draft picks.
C38_NoPickAfterLastEntry ==
    NoEntryCurrent =>
        \A c \in PickCalls :
            LET r == Pick(c) IN
            /\ ~r.ok
            /\ WritesOf(r) = <<>>
            /\ r.db = Store

\* the picks of this run completed the last entries of the draft order, a
\* player is still in the pool, and the call of the owner of the last entry
\* for that player is refused
C38_Witness ==
    /\ SomethingCommitted
    /\ EveryEntryCompleted
    /\ NoEntryCurrent
    /\ \E c \in PickCalls :
          /\ c[4] = {}
          /\ CanBeTaken(c[3])
          /\ c[1] = Draft_Order[Len(Draft_Order)].team_id
          /\ c[2] = Draft_Order[Len(Draft_Order)].owner_name
          /\ ~Pick(c).ok
          /\ Pick(c).calls = <<"state", "order1">>
-----------------------------------------------------------------------------
(* The gateway's reads: _get_range and _batch_get_ranges, one loop         *)
(* iteration per step, against a remote store that answers as it likes     *)

retry_count == 3

GatewayReads == {"_get_range", "_batch_get_ranges"}

\* what one remote call can answer: a result (with or without values), an
\* HttpError with a status, or any other exception
NoValues == <<>>
SomeValues == <<<<"1", "1", "TRUE", "FALSE">>>>

RemoteReplies ==
    {[kind |-> "result", status |-> 200, values |-> v] : v \in {NoValues, SomeValues}}
    \cup {[kind |-> "HttpError", status |-> s, values |-> NoValues] :
            s \in {429, 500, 503, 400, 404}}
    \cup {[kind |-> "Exception", status |-> 0, values |-> NoValues]}

NoReply == [kind |-> "none", status |-> 0, values |-> NoValues]

IsRetriedStatus(status) == status \in {429, 500, 503}

\* a variant: a loop that runs once more
InRange_OneMore(a) == a <= retry_count

\* for attempt in range(retry_count)
InRange(a) == a < retry_count

Running == [kind |-> "running", value |-> NoValues, error |-> NoReply]

Returned_(value) == [kind |-> "returned", value |-> value, error |-> NoReply]

Raised(reply) == [kind |-> "raised", value |-> NoValues, error |-> reply]

\* one iteration of the loop: the remote call and what the handlers of the
\* try statement do with its outcome
Iteration(reply) ==
    /\ gw_out.kind = "running"
    /\ InRange(attempt)
    /\ replies' = Append(replies, reply)
    /\ CASE reply.kind = "result" ->
              /\ gw_out' = Returned_(reply.values)
              /\ UNCHANGED <<attempt, sleeps>>
         [] reply.kind = "HttpError" /\ IsRetriedStatus(reply.status) ->
              /\ sleeps' = Append(sleeps, 2 ^ attempt)
              /\ attempt' = attempt + 1
              /\ UNCHANGED gw_out
         [] reply.kind = "HttpError" /\ ~IsRetriedStatus(reply.status) ->
              /\ gw_out' = Raised(reply)
              /\ UNCHANGED <<attempt, sleeps>>
         [] reply.kind = "Exception" ->
              IF attempt = retry_count - 1
              THEN /\ gw_out' = Raised(reply)
                   /\ UNCHANGED <<attempt, sleeps>>
              ELSE /\ sleeps' = Append(sleeps, 2 ^ attempt)
                   /\ attempt' = attempt + 1
                   /\ UNCHANGED gw_out

\* the statement after the loop: return [] (return {} for the batch read)
LoopExhausted ==
    /\ gw_out.kind = "running"
    /\ ~InRange(attempt)
    /\ gw_out' = Returned_(NoValues)
    /\ UNCHANGED <<attempt, replies, sleeps>>

get_range ==
    /\ gw_op = "_get_range"
    /\ \/ \E reply \in RemoteReplies : Iteration(reply)
       \/ LoopExhausted
    /\ UNCHANGED <<gw_op, vvars, svars>>
    /\ KeepBut("gateway")

batch_get_ranges ==
    /\ gw_op = "_batch_get_ranges"
    /\ \/ \E reply \in RemoteReplies : Iteration(reply)
       \/ LoopExhausted
    /\ UNCHANGED <<gw_op, vvars, svars>>
    /\ KeepBut("gateway")

GInit ==
    /\ gw_op \in GatewayReads
    /\ attempt = 0
    /\ replies = <<>>
    /\ sleeps = <<>>
    /\ gw_out = Running
    /\ EngineIdle
    /\ StoreIdle
    /\ IdleBut("gateway")

GNext == get_range \/ batch_get_ranges

SpecGateway == GInit /\ [][GNext]_vars

\* a read that has begun keeps running: nothing else takes the thread from it
SpecGatewayLive == SpecGateway /\ WF_vars(GNext)

-----------------------------------------------------------------------------
(* Claims about the gateway's reads *)

Finished == gw_out.kind \in {"returned", "raised"}

IsTransient(reply) == reply.kind = "HttpError" /\ IsRetriedStatus(reply.status)

AllTransient == \A i \in 1..Len(replies) : IsTransient(replies[i])

\* C12: when every attempt of a gateway read fails with a transient error
\* (HTTP 429/500/503) the failure is propagated to the caller after the final
\* attempt; a read returns normally only if its last remote call succeeded.
C12_ExhaustedReadRaises ==
    Finished =>
        /\ (Len(replies) = retry_count /\ AllTransient) => gw_out.kind = "raised"
        /\ gw_out.kind = "returned" => replies[Len(replies)].kind = "result"

\* C13: a gateway read issues at most retry_count (3) remote calls per
\* invocation and always terminates, whatever sequence of transient or
\* non-transient failures the remote store produces.
C13_BoundedAndTerminates ==
    /\ [](Len(replies) <= retry_count)
    /\ <>Finished

\* a read that used all its attempts and has ended
C13_Witness ==
    /\ Finished
    /\ Len(replies) = retry_count
    /\ \A i \in 1..Len(replies) : replies[i].kind # "result"

IsNonTransient(reply) == reply.kind # "result" /\ ~IsTransient(reply)

\* C14: a non-transient error on a gateway read is propagated on the attempt
\* where it occurs: it is the last remote call of the read, the read raises
\* it, and no backoff delay follows it.
C14_NonTransientPropagates ==
    \A i \in 1..Len(replies) :
        IsNonTransient(replies[i]) =>
            /\ i = Len(replies)
            /\ gw_out.kind = "raised" /\ gw_out.error = replies[i]
            /\ Len(sleeps) = i - 1
-----------------------------------------------------------------------------
(* The rate limiter and the outbound calls of the client's operations, in  *)
(* the order a successful run issues them. Times are in milliseconds.      *)

min_request_interval == 500

\* time that passes between two statements of the client
Elapses == {100, 400, 500}

\* differences of time.time() above the interval all behave alike
Capped(ms) == IF ms > min_request_interval THEN min_request_interval ELSE ms

Outbound(via, request) == [via |-> via, request |-> request]

\* the calls that go through _get_range, _batch_get_ranges and _update_range
\* pass the limiter; the others call .execute() on the service directly
Limited(call) == call.via \in {"_get_range", "_batch_get_ranges", "_update_range"}

OutboundCalls(op) ==
    CASE op = "make_draft_pick" ->
            << Outbound("_get_range", "Draft_State!A2:B10"),
               Outbound("_get_range", "Draft_Order!A2:G100"),
               Outbound("_get_range", "Available_Players!A2:G500"),
               Outbound("_get_range", "PlayerPool_FanDuel!A1:Z1"),
               Outbound("_get_range", "PlayerPool_FanDuel!A2:Z500"),
               Outbound("_get_range", "Available_Players!A2:A500"),
               Outbound("_update_range", "Available_Players!F"),
               Outbound("direct", "values.append Rosters!A:I"),
               Outbound("_get_range", "Draft_Order!A2:G100"),
               Outbound("_update_range", "Draft_Order!E:G"),
               Outbound("_update_range", "Draft_Order!E"),
               Outbound("_update_range", "Draft_State!B2:B5") >>
      [] op = "add_player" ->
            << Outbound("_get_range", "Available_Players!A2:G500"),
               Outbound("_get_range", "PlayerPool_FanDuel!A1:Z1"),
               Outbound("_get_range", "PlayerPool_FanDuel!A2:Z500"),
               Outbound("direct", "values.append Rosters!A:I"),
               Outbound("_get_range", "Available_Players!A2:A500"),
               Outbound("_update_range", "Available_Players!F") >>
      [] op = "drop_player" ->
            << Outbound("_get_range", "Rosters!A2:H500"),
               Outbound("direct", "spreadsheets.get"),
               Outbound("direct", "batchUpdate deleteDimension"),
               Outbound("_get_range", "Available_Players!A2:F500"),
               Outbound("_update_range", "Available_Players!F") >>
      [] op = "get_all_draft_data" ->
            << Outbound("_batch_get_ranges", "ten ranges") >>

ClientOps == {"make_draft_pick", "add_player", "drop_player", "get_all_draft_data"}

\* _rate_limit: how long it sleeps
rate_limit_sleep(el) ==
    IF el < min_request_interval THEN min_request_interval - el ELSE 0

\* the next outbound call of the running operation is issued
IssueCall ==
    /\ client_op \in ClientOps
    /\ next_call <= Len(OutboundCalls(client_op))
    /\ LET call == OutboundCalls(client_op)[next_call]
           slept == IF Limited(call) THEN rate_limit_sleep(elapsed) ELSE 0
       IN  /\ elapsed' = IF Limited(call) THEN 0 ELSE Capped(elapsed + slept)
           /\ gap' = Capped(since_call + slept)
           /\ since_call' = 0
    /\ next_call' = next_call + 1
    /\ UNCHANGED <<client_op, vvars, svars>>
    /\ KeepBut("limiter")

\* the remote call takes its time, the client computes
TimePasses ==
    /\ \E ms \in Elapses :
          /\ elapsed' = Capped(elapsed + ms)
          /\ since_call' = Capped(since_call + ms)
    /\ UNCHANGED <<client_op, next_call, gap, vvars, svars>>
    /\ KeepBut("limiter")

\* the operation has returned and the process runs the next one
NextOperation ==
    /\ client_op \in ClientOps
    /\ next_call > Len(OutboundCalls(client_op))
    /\ client_op' \in ClientOps
    /\ next_call' = 1
    /\ UNCHANGED <<elapsed, since_call, gap, vvars, svars>>
    /\ KeepBut("limiter")

\* _last_request_time = 0: the first call finds the interval long elapsed
LInit ==
    /\ client_op \in ClientOps
    /\ next_call = 1
    /\ elapsed = min_request_interval
    /\ since_call = min_request_interval
    /\ gap = min_request_interval
    /\ EngineIdle
    /\ StoreIdle
    /\ IdleBut("limiter")

LNext == IssueCall \/ TimePasses \/ NextOperation

SpecLimiter == LInit /\ [][LNext]_vars

-----------------------------------------------------------------------------
(* Claims about the rate limiter *)

\* C15: any two consecutive outbound calls to the remote store are at least
\* the minimum interval (0.5 s) apart, whichever operation issues them.
C15_CallsSpacedApart == gap >= min_request_interval
-----------------------------------------------------------------------------
(* sheets_client.py: the cache (self._cache) and the accessors that read   *)
(* through it.  c is the cache a call finds; the result carries the value  *)
(* the call returns, the cache it leaves and the gateway reads it issued   *)

Absent == [present |-> FALSE, value |-> <<>>]

Entry(value) == [present |-> TRUE, value |-> value]

TeamIdsOfLeague == {TeamsSheet[i].team_id : i \in 1..Len(TeamsSheet)}

\* f"roster_{team_id}", f"available_players_{position_filter or 'all'}",
\* f"rosters_week_{week.lower().replace(' ', '_')}"
RosterKey(team_id) == "roster_" \o ToString(team_id)

AvailableKey(position_filter) ==
    "available_players_" \o (IF position_filter = "" THEN "all" ELSE position_filter)

WeekKey(week) == "rosters_week_" \o Lower(week)

PositionFilters == {"", "WR"}

CacheKeys ==
    {"league_meta", "teams", "roster_requirements", "draft_state", "draft_order",
     "all_draft_data", WeekKey(CurrentWeek)}
    \cup {RosterKey(t) : t \in TeamIdsOfLeague}
    \cup {AvailableKey(f) : f \in PositionFilters}

EmptyCache == [k \in CacheKeys |-> Absent]

Has(c, key) == key \in DOMAIN c /\ c[key].present

Put(c, key, value) == [c EXCEPT ![key] = Entry(value)]

\* self._cache.pop(key, None)
Pop(c, key) == IF key \in DOMAIN c THEN [c EXCEPT ![key] = Absent] ELSE c

\* how the gateway read of an accessor ends: it delivers the rows, it returns
\* no rows, or it raises
Outcomes == {"rows", "no_rows", "raises"}

EmptyStore ==
    [Rosters |-> <<>>, Available_Players |-> <<>>,
     Draft_State |-> DefaultDraftState, Draft_Order |-> <<>>]

Delivered(db, outcome) == IF outcome = "rows" THEN db ELSE EmptyStore

\* raised: the call ended in an exception its caller sees
Result(value, c, calls) ==
    [value |-> value, cache |-> c, calls |-> calls, raised |-> FALSE]

Propagated(c, calls) ==
    [value |-> <<>>, cache |-> c, calls |-> calls, raised |-> TRUE]

\* a variant without the except branch: what the read raises reaches the caller
ReadThrough_Propagating(c, key, use_cache, outcome, range, parsed, default) ==
    IF use_cache /\ Has(c, key) THEN Result(c[key].value, c, <<>>)
    ELSE IF outcome = "raises" THEN Propagated(c, <<range>>)
    ELSE Result(parsed, Put(c, key, parsed), <<range>>)

\* a variant: an entry in the cache is served whatever use_cache says
ReadThrough_EntryFirst(c, key, use_cache, outcome, range, parsed, default) ==
    IF Has(c, key) THEN Result(c[key].value, c, <<>>)
    ELSE IF outcome = "raises" THEN Result(default, c, <<range>>)
    ELSE Result(parsed, Put(c, key, parsed), <<range>>)

\* the shape all accessors share: the cache check, the read, the parse, the
\* store into the cache, and the default when anything raised
ReadThrough(c, key, use_cache, outcome, range, parsed, default) ==
    IF use_cache /\ Has(c, key) THEN Result(c[key].value, c, <<>>)
    ELSE IF outcome = "raises" THEN Result(default, c, <<range>>)
    ELSE Result(parsed, Put(c, key, parsed), <<range>>)

cached_get_league_meta(c, db, use_cache, outcome) ==
    ReadThrough(c, "league_meta", use_cache, outcome, "League_Meta!A2:B10",
                IF outcome = "rows" THEN get_league_meta({}) ELSE get_league_meta({"meta"}),
                get_league_meta({"meta"}))

cached_get_roster_requirements(c, db, use_cache, outcome) ==
    ReadThrough(c, "roster_requirements", use_cache, outcome,
                "Roster_Requirements!A2:D10",
                IF outcome = "rows" THEN get_roster_requirements({}) ELSE <<>>,
                get_roster_requirements({"reqs"}))

cached_get_teams(c, db, use_cache, outcome) ==
    ReadThrough(c, "teams", use_cache, outcome, "Teams!A2:G100",
                IF outcome = "rows" THEN get_teams({}) ELSE <<>>,
                get_teams({"teams"}))

\* get_roster: the team's rows of all weeks, sorted by position
get_roster(rosters, team_id) ==
    LET rows == SelectSeq(rosters, LAMBDA row : row.team_id = team_id)
    IN  SortByPosition([i \in 1..Len(rows) |-> RosterRowPlayer(rows[i])])

cached_get_roster(c, db, team_id, use_cache, outcome) ==
    ReadThrough(c, RosterKey(team_id), use_cache, outcome, "Rosters!A2:I500",
                get_roster(Delivered(db, outcome).Rosters, team_id), <<>>)

\* the dict of get_rosters_by_week, read with .get(team_id, [])
RostersByTeam(rosters, week) ==
    [t \in TeamIdsOfLeague |-> get_rosters_by_week(rosters, week, t, {})]

NoRosters == [t \in TeamIdsOfLeague |-> <<>>]

cached_get_rosters_by_week(c, db, week, use_cache, outcome) ==
    ReadThrough(c, WeekKey(week), use_cache, outcome, "Rosters!A2:I500",
                RostersByTeam(Delivered(db, outcome).Rosters, week), NoRosters)

FilterPosition(players, position_filter) ==
    SelectSeq(players, LAMBDA p : ~(position_filter # ""
                                     /\ Upper(p.position) # Upper(position_filter)))

cached_get_available_players(c, db, use_cache, position_filter, outcome) ==
    LET r == ReadThrough(c, AvailableKey(position_filter), use_cache, outcome,
                 "Available_Players!A2:G500",
                 FilterPosition(
                     get_available_players(Delivered(db, outcome).Available_Players,
                                           "avail", {}),
                     position_filter),
                 get_available_players(db.Available_Players, "avail", {"avail"}))
    IN  IF r.calls = <<>> \/ outcome = "raises" THEN r
        ELSE Result(r.value, r.cache,
                    r.calls \o <<"PlayerPool_FanDuel!A1:Z1", "PlayerPool_FanDuel!A2:Z500">>)

cached_get_draft_state(c, db, use_cache, outcome) ==
    ReadThrough(c, "draft_state", use_cache, outcome, "Draft_State!A2:B10",
                get_draft_state(Delivered(db, outcome).Draft_State, {}),
                get_draft_state(db.Draft_State, {"state"}))

cached_get_draft_order(c, db, use_cache, outcome) ==
    ReadThrough(c, "draft_order", use_cache, outcome, "Draft_Order!A2:G100",
                get_draft_order(Delivered(db, outcome).Draft_Order, "order1", {}),
                get_draft_order(db.Draft_Order, "order1", {"order1"}))

\* None, as a pick
NoPick ==
    [round |-> 0, pick |-> 0, team_id |-> 0, owner_name |-> "", status |-> "",
     player_id |-> "", player_name |-> ""]

PickAt(picks, i) == IF i = 0 THEN NoPick ELSE picks[i]

cached_get_current_pick(c, db, use_cache, outcome) ==
    LET r == cached_get_draft_order(c, db, use_cache, outcome)
    IN  IF r.raised THEN r
        ELSE Result(PickAt(r.value, get_current_pick(r.value)), r.cache, r.calls)

\* get_all_draft_data's own parse of the batch: rosters of all weeks by team,
\* in sheet order; every listed player; the last entry marked current
SnapshotRosters(rosters) ==
    [t \in TeamIdsOfLeague |->
        LET rows == SelectSeq(rosters, LAMBDA row : row.team_id = t)
        IN  [i \in 1..Len(rows) |->
                [week |-> rows[i].week] @@ RosterRowPlayer(rows[i])]]

LastCurrent(picks) ==
    LET hits == {i \in 1..Len(picks) : is_current(picks[i])}
    IN  IF hits = {} THEN 0 ELSE CHOOSE i \in hits : \A j \in hits : j <= i

Snapshot(teams, db) ==
    LET draft_order == get_draft_order(db.Draft_Order, "batch", {})
    IN  [teams |-> teams,
         rosters |-> SnapshotRosters(db.Rosters),
         available_players |->
             get_available_players(db.Available_Players, "batch", {}),
         draft_state |-> get_draft_state(db.Draft_State, {}),
         draft_order |-> draft_order,
         current_pick |-> PickAt(draft_order, LastCurrent(draft_order))]

\* the structure returned when the batch read raised
EmptySnapshot == Snapshot(<<>>, EmptyStore)

\* a variant without the two-tier branch: the snapshot or a full fetch
get_all_draft_data_NoTwoTier(c, db, use_cache, force_fresh_draft_state, o) ==
    IF use_cache /\ Has(c, "all_draft_data") /\ ~force_fresh_draft_state
    THEN Result(c["all_draft_data"].value, c, <<>>)
    ELSE IF o[1] = "raises" THEN Result(EmptySnapshot, c, <<"batchGet">>)
    ELSE LET result == Snapshot(IF o[1] = "rows" THEN get_teams({}) ELSE <<>>,
                                Delivered(db, o[1]))
         IN  Result(result, Put(c, "all_draft_data", result), <<"batchGet">>)

\* a variant: the refreshed fields are written into the cached snapshot too
get_all_draft_data_RefreshingEntry(c, db, use_cache, force_fresh_draft_state, o) ==
    IF use_cache /\ Has(c, "all_draft_data") /\ force_fresh_draft_state
    THEN LET cached_data == c["all_draft_data"].value
             s == cached_get_draft_state(c, db, FALSE, o[2])
             p == cached_get_current_pick(s.cache, db, FALSE, o[3])
             fresh == [cached_data EXCEPT !.draft_state = s.value,
                                          !.current_pick = p.value]
         IN  Result(fresh, Put(p.cache, "all_draft_data", fresh), s.calls \o p.calls)
    ELSE get_all_draft_data_NoTwoTier(c, db, use_cache, force_fresh_draft_state, o)

\* o = <<batch, state, order>>: how the gateway reads end
get_all_draft_data(c, db, use_cache, force_fresh_draft_state, o) ==
    IF use_cache /\ Has(c, "all_draft_data") /\ force_fresh_draft_state
    THEN LET cached_data == c["all_draft_data"].value
             s == cached_get_draft_state(c, db, FALSE, o[2])
             p == cached_get_current_pick(s.cache, db, FALSE, o[3])
         IN  Result([cached_data EXCEPT !.draft_state = s.value,
                                        !.current_pick = p.value],
                    p.cache, s.calls \o p.calls)
    ELSE IF use_cache /\ Has(c, "all_draft_data")
    THEN Result(c["all_draft_data"].value, c, <<>>)
    ELSE IF o[1] = "raises" THEN Result(EmptySnapshot, c, <<"batchGet">>)
    ELSE LET result == Snapshot(IF o[1] = "rows" THEN get_teams({}) ELSE <<>>,
                                Delivered(db, o[1]))
         IN  Result(result, Put(c, "all_draft_data", result), <<"batchGet">>)

-----------------------------------------------------------------------------
(* The mutations, with what they do to the cache *)

DidCall(calls, site) == \E i \in 1..Len(calls) : calls[i] = site

Mutated(r, c) == [db |-> r.db, ok |-> r.ok, calls |-> r.calls, cache |-> c]

PositionOf(db, player_id) ==
    LET i == FirstWith(db.Available_Players, "player_id", player_id)
    IN  IF i = 0 THEN "" ELSE db.Available_Players[i].position

\* make_draft_pick: the reads of steps 1 to 3 store into the cache, a pick
\* that went through evicts five keys
cached_make_draft_pick(c, db, player_id, team_id, owner_name, current_week) ==
    LET r == make_draft_pick(db, player_id, team_id, owner_name, current_week, {})
        s == cached_get_draft_state(c, db, FALSE, "rows")
        p == cached_get_current_pick(s.cache, db, FALSE, "rows")
        a == IF DidCall(r.calls, "avail")
             THEN cached_get_available_players(p.cache, db, FALSE, "", "rows")
             ELSE p
    IN  IF r.ok
        THEN Mutated(r, Pop(Pop(Pop(Pop(Pop(a.cache,
                            AvailableKey("")),
                            AvailableKey(PositionOf(db, player_id))),
                            "draft_state"),
                            "draft_order"),
                            RosterKey(team_id)))
        ELSE Mutated(r, a.cache)

cached_add_player(c, db, team_id, player_id, current_week) ==
    LET r == add_player(db, team_id, player_id, current_week, {})
        a == cached_get_available_players(c, db, FALSE, "", "rows")
    IN  IF r.ok
        THEN Mutated(r, Pop(Pop(a.cache, RosterKey(team_id)), AvailableKey("")))
        ELSE Mutated(r, a.cache)

\* _get_sheet_id("Rosters"): the id of the Rosters sheet, 0 when the lookup
\* fails; the sheet whose id is 0 is then Rosters itself, the pool, or a
\* table this model does not hold
SheetIdFaults == {"sheet_id", "sheet_id_pool", "sheet_id_rosters"}

SheetZero(fp) ==
    IF "sheet_id" \in fp THEN "Other"
    ELSE IF "sheet_id_pool" \in fp THEN "Available_Players"
    ELSE "Rosters"

\* deleteDimension of the sheet row that holds data row player_row
DeleteRow(db, table, player_row) ==
    IF table = "Rosters" THEN [db EXCEPT !.Rosters = RemoveAt(@, player_row)]
    ELSE IF table = "Available_Players" /\ player_row <= Len(db.Available_Players)
    THEN [db EXCEPT !.Available_Players = RemoveAt(@, player_row)]
    ELSE db

\* a variant: the row is searched by the player's name alone
drop_player_ByNameOnly(db, team_id, player_name, current_week, fp) ==
    LET player_row ==
            First({i \in 1..Len(db.Rosters) :
                      db.Rosters[i].player_name = player_name})
        c1 == <<"drop_rosters">>
    IN
    IF "drop_rosters" \in fp \/ player_row = 0 THEN Returned(db, FALSE, c1)
    ELSE IF "w_delete" \in fp THEN Returned(db, FALSE, c1 \o <<"sheet_id", "w_delete">>)
    ELSE LET d1 == DeleteRow(db, SheetZero(fp), player_row)
             c2 == c1 \o <<"sheet_id",
                           IF SheetZero(fp) = "Rosters" THEN "w_delete"
                           ELSE "w_delete_sheet_0">>
             available_row == FirstWith(d1.Available_Players, "player_name", player_name)
         IN  IF "drop_avail" \in fp THEN Returned(d1, FALSE, Append(c2, "drop_avail"))
             ELSE IF available_row = 0 THEN Returned(d1, TRUE, Append(c2, "drop_avail"))
             ELSE Returned(WriteStatus(d1, available_row, "available", "w_available", fp),
                           TRUE, c2 \o <<"drop_avail", "w_available">>)

\* drop_player: the first Rosters row of the team, week and name is deleted
\* and the player of that name is marked available
drop_player(db, team_id, player_name, current_week, fp) ==
    LET player_row ==
            First({i \in 1..Len(db.Rosters) :
                      /\ db.Rosters[i].team_id = team_id
                      /\ Lower(db.Rosters[i].week) = Lower(current_week)
                      /\ db.Rosters[i].player_name = player_name})
        c1 == <<"drop_rosters">>
    IN
    IF "drop_rosters" \in fp \/ player_row = 0 THEN Returned(db, FALSE, c1)
    ELSE IF "w_delete" \in fp THEN Returned(db, FALSE, c1 \o <<"sheet_id", "w_delete">>)
    ELSE LET d1 == DeleteRow(db, SheetZero(fp), player_row)
             c2 == c1 \o <<"sheet_id",
                           IF SheetZero(fp) = "Rosters" THEN "w_delete"
                           ELSE "w_delete_sheet_0">>
             available_row == FirstWith(d1.Available_Players, "player_name", player_name)
         IN  IF "drop_avail" \in fp THEN Returned(d1, FALSE, Append(c2, "drop_avail"))
             ELSE IF available_row = 0 THEN Returned(d1, TRUE, Append(c2, "drop_avail"))
             ELSE Returned(WriteStatus(d1, available_row, "available", "w_available", fp),
                           TRUE, c2 \o <<"drop_avail", "w_available">>)

cached_drop_player(c, db, team_id, player_name, current_week) ==
    LET r == drop_player(db, team_id, player_name, current_week, {})
    IN  IF r.ok
        THEN Mutated(r, Pop(Pop(c, RosterKey(team_id)), AvailableKey("")))
        ELSE Mutated(r, c)

-----------------------------------------------------------------------------
(* The client serving one call after another *)

MaxCacheOps == 2

Served(op, use_cache, calls) == [op |-> op, use_cache |-> use_cache, calls |-> calls]

ServeRead(op, use_cache, r) ==
    /\ cache_ops < MaxCacheOps
    /\ cache_ops' = cache_ops + 1
    /\ cache' = r.cache
    /\ served' = Served(op, use_cache, r.calls)
    /\ UNCHANGED <<vvars, svars>>
    /\ KeepBut("cache")

ServeMutation(op, r) ==
    /\ cache_ops < MaxCacheOps
    /\ cache_ops' = cache_ops + 1
    /\ cache' = r.cache
    /\ served' = Served(IF r.ok THEN op ELSE "refused", FALSE, r.calls)
    /\ Rosters' = r.db.Rosters
    /\ Available_Players' = r.db.Available_Players
    /\ Draft_State' = r.db.Draft_State
    /\ Draft_Order' = r.db.Draft_Order
    /\ UNCHANGED <<faults, vvars>>
    /\ KeepBut("cache")

GetLeagueMeta ==
    \E use_cache \in BOOLEAN, o \in Outcomes :
        ServeRead("get_league_meta", use_cache,
                  cached_get_league_meta(cache, Store, use_cache, o))

GetRosterRequirements ==
    \E use_cache \in BOOLEAN, o \in Outcomes :
        ServeRead("get_roster_requirements", use_cache,
                  cached_get_roster_requirements(cache, Store, use_cache, o))

GetTeams ==
    \E use_cache \in BOOLEAN, o \in Outcomes :
        ServeRead("get_teams", use_cache, cached_get_teams(cache, Store, use_cache, o))

GetRoster ==
    \E team_id \in TeamIdsOfLeague, use_cache \in BOOLEAN, o \in Outcomes :
        ServeRead("get_roster", use_cache,
                  cached_get_roster(cache, Store, team_id, use_cache, o))

GetRostersByWeek ==
    \E use_cache \in BOOLEAN, o \in Outcomes :
        ServeRead("get_rosters_by_week", use_cache,
                  cached_get_rosters_by_week(cache, Store, CurrentWeek, use_cache, o))

GetAvailablePlayers ==
    \E f \in PositionFilters, use_cache \in BOOLEAN, o \in Outcomes :
        ServeRead("get_available_players", use_cache,
                  cached_get_available_players(cache, Store, use_cache, f, o))

GetDraftState ==
    \E use_cache \in BOOLEAN, o \in Outcomes :
        ServeRead("get_draft_state", use_cache,
                  cached_get_draft_state(cache, Store, use_cache, o))

GetDraftOrder ==
    \E use_cache \in BOOLEAN, o \in Outcomes :
        ServeRead("get_draft_order", use_cache,
                  cached_get_draft_order(cache, Store, use_cache, o))

GetCurrentPick ==
    \E use_cache \in BOOLEAN, o \in Outcomes :
        ServeRead("get_current_pick", use_cache,
                  cached_get_current_pick(cache, Store, use_cache, o))

GetAllDraftData ==
    \E use_cache \in BOOLEAN, fresh \in BOOLEAN, o \in Outcomes \X Outcomes \X Outcomes :
        ServeRead(IF use_cache /\ fresh /\ Has(cache, "all_draft_data")
                  THEN "two_tier" ELSE "get_all_draft_data",
                  use_cache, get_all_draft_data(cache, Store, use_cache, fresh, o))

\* the teams as their owners, and a caller that is neither
Callers == {<<TeamsSheet[i].team_id, TeamsSheet[i].owner_name>> : i \in 1..Len(TeamsSheet)}

CachePlayers == {"p1", "p2"}

MakeDraftPick ==
    \E who \in Callers, player_id \in CachePlayers :
        ServeMutation("make_draft_pick",
            cached_make_draft_pick(cache, Store, player_id, who[1], who[2], CurrentWeek))

AddPlayer ==
    \E who \in Callers, player_id \in CachePlayers :
        ServeMutation("add_player",
            cached_add_player(cache, Store, who[1], player_id, CurrentWeek))

DropPlayer ==
    \E who \in Callers, i \in 1..Len(Rosters) :
        ServeMutation("drop_player",
            cached_drop_player(cache, Store, who[1], Rosters[i].player_name, CurrentWeek))

\* an entry's time to live runs out
Expire ==
    /\ cache_ops < MaxCacheOps
    /\ \E key \in CacheKeys :
          /\ Has(cache, key)
          /\ cache' = Pop(cache, key)
    /\ cache_ops' = cache_ops + 1
    /\ served' = Served("expire", FALSE, <<>>)
    /\ UNCHANGED <<vvars, svars>>
    /\ KeepBut("cache")

refresh_cache ==
    /\ cache_ops < MaxCacheOps
    /\ cache' = EmptyCache
    /\ cache_ops' = cache_ops + 1
    /\ served' = Served("refresh_cache", FALSE, <<>>)
    /\ UNCHANGED <<vvars, svars>>
    /\ KeepBut("cache")

CInit ==
    /\ \E done \in StartPoints : StoreIs(StoreAt(done, FALSE))
    /\ faults = 0
    /\ cache = EmptyCache
    /\ served = Served("none", FALSE, <<>>)
    /\ cache_ops = 0
    /\ EngineIdle
    /\ IdleBut("cache")

CNext ==
    \/ GetLeagueMeta \/ GetRosterRequirements
    \/ GetTeams \/ GetRoster \/ GetRostersByWeek \/ GetAvailablePlayers
    \/ GetDraftState \/ GetDraftOrder \/ GetCurrentPick \/ GetAllDraftData
    \/ MakeDraftPick \/ AddPlayer \/ DropPlayer
    \/ Expire \/ refresh_cache

SpecCache == CInit /\ [][CNext]_vars
-----------------------------------------------------------------------------
(* Claims about the cache *)

\* what a read that succeeds would store under the key
Content(key, db) ==
    IF key = "teams" THEN cached_get_teams(EmptyCache, db, FALSE, "rows").value
    ELSE IF key = "league_meta"
    THEN cached_get_league_meta(EmptyCache, db, FALSE, "rows").value
    ELSE IF key = "roster_requirements"
    THEN cached_get_roster_requirements(EmptyCache, db, FALSE, "rows").value
    ELSE IF key = "draft_state"
    THEN cached_get_draft_state(EmptyCache, db, FALSE, "rows").value
    ELSE IF key = "draft_order"
    THEN cached_get_draft_order(EmptyCache, db, FALSE, "rows").value
    ELSE IF key = "all_draft_data"
    THEN get_all_draft_data(EmptyCache, db, FALSE, FALSE, <<"rows", "rows", "rows">>).value
    ELSE IF key = WeekKey(CurrentWeek)
    THEN cached_get_rosters_by_week(EmptyCache, db, CurrentWeek, FALSE, "rows").value
    ELSE IF \E t \in TeamIdsOfLeague : key = RosterKey(t)
    THEN LET t == CHOOSE t \in TeamIdsOfLeague : key = RosterKey(t)
         IN  cached_get_roster(EmptyCache, db, t, FALSE, "rows").value
    ELSE LET f == CHOOSE f \in PositionFilters : key = AvailableKey(f)
         IN  cached_get_available_players(EmptyCache, db, FALSE, f, "rows").value

\* the mutations a caller can ask for on the present store and cache
Mutations ==
    {cached_make_draft_pick(cache, Store, p, who[1], who[2], CurrentWeek) :
        who \in Callers, p \in CachePlayers}
    \cup {cached_add_player(cache, Store, who[1], p, CurrentWeek) :
        who \in Callers, p \in CachePlayers}
    \cup {cached_drop_player(cache, Store, who[1], Rosters[i].player_name, CurrentWeek) :
        who \in Callers, i \in 1..Len(Rosters)}

\* C16: after any successful make_draft_pick, add_player or drop_player, no
\* cache entry remains whose content the mutation changed: every entry still
\* in the cache is one for which a fetch gives the same before and after.
C16_MutationEvictsWhatItChanged ==
    \A m \in Mutations :
        m.ok => \A key \in CacheKeys :
                    Has(m.cache, key) => Content(key, Store) = Content(key, m.db)

ReadOutcomes == Outcomes \X Outcomes \X Outcomes

TurnStateReads == <<"Draft_State!A2:B10", "Draft_Order!A2:G100">>

\* C17: two-tier refresh: once a full fetch has stored the snapshot, every
\* get_all_draft_data(use_cache=true, force_fresh_draft_state=true) request
\* made while the snapshot is in the cache issues the small reads of the turn
\* state (draft state, draft order) and no batch read, and leaves the
\* snapshot in the cache; a batch read is issued only when the snapshot is
\* absent, and it is one.
C17_TwoTierRefresh ==
    \A o \in ReadOutcomes :
        LET r == get_all_draft_data(cache, Store, TRUE, TRUE, o)
        IN  IF cache["all_draft_data"].present
            THEN /\ r.calls = TurnStateReads
                 /\ r.cache["all_draft_data"] = cache["all_draft_data"]
            ELSE /\ r.calls = <<"batchGet">>
                 /\ o[1] # "raises" => r.cache["all_draft_data"].present

\* a two-tier request has been served from the snapshot a full fetch stored
C17_Witness ==
    /\ served.op = "two_tier"
    /\ served.calls = TurnStateReads
    /\ cache["all_draft_data"].present
    /\ cache["draft_state"].present

\* the read accessors and the key each stores under
Accessor(op, team_id, position_filter, key) ==
    [op |-> op, team_id |-> team_id, position_filter |-> position_filter, key |-> key]

Accessors ==
    {Accessor("get_league_meta", 0, "", "league_meta"),
     Accessor("get_roster_requirements", 0, "", "roster_requirements"),
     Accessor("get_teams", 0, "", "teams"),
     Accessor("get_rosters_by_week", 0, "", WeekKey(CurrentWeek)),
     Accessor("get_draft_state", 0, "", "draft_state"),
     Accessor("get_draft_order", 0, "", "draft_order"),
     Accessor("get_current_pick", 0, "", "draft_order"),
     Accessor("get_all_draft_data", 0, "", "all_draft_data")}
    \cup {Accessor("get_roster", t, "", RosterKey(t)) : t \in TeamIdsOfLeague}
    \cup {Accessor("get_available_players", 0, f, AvailableKey(f)) : f \in PositionFilters}

\* the accessor called with use_cache=False on the present store and cache
Bypass(a, o) ==
    CASE a.op = "get_teams" -> cached_get_teams(cache, Store, FALSE, o)
      [] a.op = "get_league_meta" -> cached_get_league_meta(cache, Store, FALSE, o)
      [] a.op = "get_roster_requirements" ->
            cached_get_roster_requirements(cache, Store, FALSE, o)
      [] a.op = "get_roster" -> cached_get_roster(cache, Store, a.team_id, FALSE, o)
      [] a.op = "get_rosters_by_week" ->
            cached_get_rosters_by_week(cache, Store, CurrentWeek, FALSE, o)
      [] a.op = "get_available_players" ->
            cached_get_available_players(cache, Store, FALSE, a.position_filter, o)
      [] a.op = "get_draft_state" -> cached_get_draft_state(cache, Store, FALSE, o)
      [] a.op = "get_draft_order" -> cached_get_draft_order(cache, Store, FALSE, o)
      [] a.op = "get_current_pick" -> cached_get_current_pick(cache, Store, FALSE, o)
      [] a.op = "get_all_draft_data" ->
            get_all_draft_data(cache, Store, FALSE, FALSE, <<o, o, o>>)

\* the entry of the accessor's key holds the value the call returned
HoldsValue(c, a, value) ==
    /\ c[a.key].present
    /\ IF a.op = "get_current_pick"
       THEN PickAt(c[a.key].value, get_current_pick(c[a.key].value)) = value
       ELSE c[a.key].value = value

-----------------------------------------------------------------------------
(* Claims about reads that fail *)

\* the top-level read accessors
TopLevelReads ==
    {"get_league_meta", "get_teams", "get_roster_requirements",
     "get_rosters_by_week", "get_available_players", "get_draft_state",
     "get_draft_order", "get_all_draft_data"}

\* the accessor called on the present store and cache
TopRead(op, use_cache, o) ==
    CASE op = "get_league_meta" -> cached_get_league_meta(cache, Store, use_cache, o)
      [] op = "get_teams" -> cached_get_teams(cache, Store, use_cache, o)
      [] op = "get_roster_requirements" ->
            cached_get_roster_requirements(cache, Store, use_cache, o)
      [] op = "get_rosters_by_week" ->
            cached_get_rosters_by_week(cache, Store, CurrentWeek, use_cache, o)
      [] op = "get_available_players" ->
            cached_get_available_players(cache, Store, use_cache, "", o)
      [] op = "get_draft_state" -> cached_get_draft_state(cache, Store, use_cache, o)
      [] op = "get_draft_order" -> cached_get_draft_order(cache, Store, use_cache, o)
      [] op = "get_all_draft_data" ->
            get_all_draft_data(cache, Store, use_cache, FALSE, <<o, o, o>>)

\* the default or empty value of each, as its except branch spells it out
DefaultOf(op) ==
    CASE op = "get_league_meta" -> [current_week |-> "Week 18"]
      [] op = "get_rosters_by_week" -> [t \in TeamIdsOfLeague |-> <<>>]
      [] op = "get_draft_state" ->
            [current_round |-> 1, current_pick |-> 1,
             draft_started |-> FALSE, draft_complete |-> FALSE]
      [] op = "get_all_draft_data" ->
            [teams |-> <<>>, rosters |-> [t \in TeamIdsOfLeague |-> <<>>],
             available_players |-> <<>>,
             draft_state |-> [current_round |-> 1, current_pick |-> 1,
                              draft_started |-> FALSE, draft_complete |-> FALSE],
             draft_order |-> <<>>, current_pick |-> NoPick]
      [] OTHER -> <<>>

\* a fetch that fails: it raises, or the gateway gives up and hands back
\* nothing
FailedOutcomes == {"raises", "no_rows"}

\* C22: every top-level read accessor (get_league_meta, get_teams,
\* get_roster_requirements, get_rosters_by_week, get_available_players,
\* get_draft_state, get_draft_order, get_all_draft_data) returns its
\* default/empty value when its remote fetch fails in any way, and never
\* propagates the failure to its caller; in two-tier mode, where the fetches
\* are those of get_draft_state and get_current_pick, nothing is propagated
\* either and the two refreshed fields hold those accessors' defaults.
C22_FailedReadGivesDefault ==
    /\ \A op \in TopLevelReads, use_cache \in BOOLEAN, o \in FailedOutcomes :
          LET r == TopRead(op, use_cache, o)
          IN  /\ ~r.raised
              /\ r.calls # <<>> => r.value = DefaultOf(op)
    /\ \A o \in ReadOutcomes :
          LET r == get_all_draft_data(cache, Store, TRUE, TRUE, o)
          IN  /\ ~r.raised
              /\ (Has(cache, "all_draft_data") /\ o[2] \in FailedOutcomes)
                    => r.value.draft_state = DefaultOf("get_draft_state")
              /\ (Has(cache, "all_draft_data") /\ o[3] \in FailedOutcomes)
                    => r.value.current_pick = NoPick

\* the cache holds what an accessor fetched earlier, and the same accessor,
\* bypassing the cache with a fetch that raises, returns its default instead
C22_Witness ==
    \E a \in Accessors :
        /\ a.op \in TopLevelReads
        /\ cache[a.key].present
        /\ cache[a.key].value # DefaultOf(a.op)
        /\ LET r == TopRead(a.op, FALSE, "raises")
           IN  r.calls # <<>> /\ r.value = DefaultOf(a.op)

\* C32: when the fresh draft-state or current-pick fetch fails during a
\* two-tier get_all_draft_data read, the returned data carries the cached
\* snapshot's draft_state and current_pick (the fully cached data), not
\* default or empty values.
C32_FailedRefreshKeepsSnapshot ==
    Has(cache, "all_draft_data") =>
        \A o \in ReadOutcomes :
            LET r == get_all_draft_data(cache, Store, TRUE, TRUE, o)
                cached_data == cache["all_draft_data"].value
            IN  /\ o[2] \in FailedOutcomes => r.value.draft_state = cached_data.draft_state
                /\ o[3] \in FailedOutcomes => r.value.current_pick = cached_data.current_pick

\* C33: a read whose remote fetch did not succeed (including a transient
\* failure that exhausted every retry) stores nothing in the cache: after it
\* the cache is as it was, so no entry holds an empty or default value that
\* the remote store never returned.
C33_FailedReadStoresNothing ==
    \A a \in Accessors, o \in FailedOutcomes :
        LET r == Bypass(a, o)
        IN  r.calls # <<>> => r.cache = cache

\* C39: a two-tier get_all_draft_data call leaves the all_draft_data cache
\* entry unchanged: the fresh draft_state and current_pick are written only
\* into the returned copy, so a later plain cached read still returns the
\* snapshot's original draft_state and current_pick, without a remote call.
C39_TwoTierKeepsEntry ==
    Has(cache, "all_draft_data") =>
        \A o \in ReadOutcomes :
            LET snapshot == cache["all_draft_data"].value
                r == get_all_draft_data(cache, Store, TRUE, TRUE, o)
                later == get_all_draft_data(r.cache, Store, TRUE, FALSE, o)
            IN  /\ r.cache["all_draft_data"] = cache["all_draft_data"]
                /\ later.calls = <<>>
                /\ later.value = snapshot
                /\ later.value.draft_state = snapshot.draft_state
                /\ later.value.current_pick = snapshot.current_pick

\* a two-tier request has been served whose fresh draft state, now stored
\* under its own key, differs from the one the snapshot still holds
C39_Witness ==
    /\ served.op = "two_tier"
    /\ Has(cache, "all_draft_data")
    /\ Has(cache, "draft_state")
    /\ cache["draft_state"].value # cache["all_draft_data"].value.draft_state
-----------------------------------------------------------------------------
(* main.py under uvicorn: one process, one event loop.  Every handler is a  *)
(* coroutine (async def); it gives the loop back only where it awaits.      *)
(* The client's calls (.execute(), time.sleep) are ordinary blocking calls. *)

RequestIds == {1, 2}

Asked(kind, owner_name, player_id) ==
    [kind |-> kind, owner_name |-> owner_name, player_id |-> player_id,
     pc |-> "arrived", asleep |-> FALSE, status |-> 0]

\* POST /api/draft/pick, POST /api/fa/add, GET /api/draft/state
Inbound ==
    {Asked(kind, owner_name, player_id) :
        kind \in {"pick", "add"}, owner_name \in {"Ann", "Bob"},
        player_id \in {"p1", "p2"}}
    \cup {Asked("state", "", "")}

HasBody(q) == q.kind \in {"pick", "add"}

\* a coroutine runs only while no other one holds the loop
LoopFree == running = 0

\* data = await request.json(): the handler starts and waits for the body;
\* the loop is free again while it waits
Receive(i) ==
    /\ LoopFree
    /\ HasBody(requests[i]) /\ requests[i].pc = "arrived"
    /\ requests' = [requests EXCEPT ![i].pc = "parsed"]
    /\ UNCHANGED <<running, vvars, svars>>
    /\ KeepBut("server")

\* the handler of a pick or add from the body to the verdict of the engine
\* (reads of teams, meta, requirements, rosters, players; the validation)
Validated(q) ==
    LET pre == Prepared(Store, q.owner_name, q.player_id, {})
    IN  IF ~pre.team_found THEN 404
        ELSE IF Rejected(pre.check) THEN 400
        ELSE 0

ValidateRequest(i) ==
    /\ LoopFree
    /\ HasBody(requests[i]) /\ requests[i].pc = "parsed"
    /\ LET status == Validated(requests[i])
       IN  IF status = 0
           THEN /\ requests' = [requests EXCEPT ![i].pc = "validated"]
                /\ running' = i
           ELSE /\ requests' = [requests EXCEPT ![i].pc = "done", ![i].status = status]
                /\ running' = 0
    /\ UNCHANGED <<vvars, svars>>
    /\ KeepBut("server")

\* the handler of GET /api/draft/state enters the client
BeginRead(i) ==
    /\ LoopFree
    /\ ~HasBody(requests[i]) /\ requests[i].pc = "arrived"
    /\ requests' = [requests EXCEPT ![i].pc = "reading"]
    /\ running' = i
    /\ UNCHANGED <<vvars, svars>>
    /\ KeepBut("server")

\* time.sleep in _rate_limit or in the backoff of a read: the thread of the
\* loop sleeps
Sleep(i) ==
    /\ running = i
    /\ ~requests[i].asleep
    /\ requests' = [requests EXCEPT ![i].asleep = TRUE]
    /\ UNCHANGED <<running, vvars, svars>>
    /\ KeepBut("server")

Wake(i) ==
    /\ running = i
    /\ requests[i].asleep
    /\ requests' = [requests EXCEPT ![i].asleep = FALSE]
    /\ UNCHANGED <<running, vvars, svars>>
    /\ KeepBut("server")

\* the client call of the handler, the response, the end of the coroutine
Mutate(i) ==
    /\ running = i
    /\ requests[i].pc = "validated" /\ ~requests[i].asleep
    /\ LET q == requests[i]
           pre == Prepared(Store, q.owner_name, q.player_id, {})
           r == IF q.kind = "pick"
                THEN make_draft_pick(Store, q.player_id, pre.team_id, q.owner_name,
                                     pre.current_week, {})
                ELSE add_player(Store, pre.team_id, q.player_id, pre.current_week, {})
       IN  /\ Rosters' = r.db.Rosters
           /\ Available_Players' = r.db.Available_Players
           /\ Draft_State' = r.db.Draft_State
           /\ Draft_Order' = r.db.Draft_Order
           /\ requests' = [requests EXCEPT ![i].pc = "done",
                                           ![i].status = IF r.ok THEN 200 ELSE 500]
    /\ running' = 0
    /\ UNCHANGED <<faults, vvars>>
    /\ KeepBut("server")

Answer(i) ==
    /\ running = i
    /\ requests[i].pc = "reading" /\ ~requests[i].asleep
    /\ requests' = [requests EXCEPT ![i].pc = "done", ![i].status = 200]
    /\ running' = 0
    /\ UNCHANGED <<vvars, svars>>
    /\ KeepBut("server")

\* the steps a request can take
Progress(i) ==
    \/ Receive(i) \/ ValidateRequest(i) \/ BeginRead(i)
    \/ Mutate(i) \/ Answer(i)

SInit ==
    /\ requests \in [RequestIds -> Inbound]
    /\ running = 0
    /\ EngineIdle
    /\ StoreIdle
    /\ IdleBut("server")

SNext ==
    \E i \in RequestIds :
        \/ Receive(i) \/ ValidateRequest(i) \/ BeginRead(i)
        \/ Sleep(i) \/ Wake(i)
        \/ Mutate(i) \/ Answer(i)

SpecServer == SInit /\ [][SNext]_vars

-----------------------------------------------------------------------------
(* Claims about requests in flight together *)

\* C19: two draft-pick (or free-agency add) requests that run concurrently
\* can both pass their checks against a read taken before either has
\* written: while one request has passed its validation and has not yet
\* written, another request whose body has arrived can run its own checks.
C19_ChecksInterleave ==
    \A i \in RequestIds, j \in RequestIds :
        (i # j /\ requests[i].pc = "validated" /\ requests[j].pc = "parsed")
            => ENABLED ValidateRequest(j)

\* C20: while one operation is waiting in a retry backoff delay or a
\* rate-limit delay, another inbound request that has not been answered can
\* still make progress.
C20_DelayIsLocal ==
    \A i \in RequestIds, j \in RequestIds :
        (i # j /\ requests[i].asleep /\ requests[j].pc # "done")
            => ENABLED Progress(j)
-----------------------------------------------------------------------------
(* models.py, sheets_client.py: raw cells into records.  The Sheets API     *)
(* delivers every cell as a string; a field of a record holds the number    *)
(* the constructor made of it or, where the conversion did not take place,  *)
(* the string as delivered                                                  *)

MaxRows == 2

NumberCells == {"1", "2", "3"}

\* int(cell), float(cell) of a cell that spells a whole number
IntOf(cell) ==
    CASE cell = "1" -> 1 [] cell = "2" -> 2 [] cell = "3" -> 3 [] OTHER -> 0

\* int(cell) raises ValueError; float(cell) raises ValueError
IntFails(cell) == cell \notin NumberCells

FloatFails(cell) == cell \notin NumberCells \cup {"2.5"}

\* a field that holds an int (or float), a field that holds a str
Num(n) == [type |-> "int", n |-> n, s |-> ""]

Str(s) == [type |-> "str", n |-> 0, s |-> s]

\* Team.__post_init__: the three conversions share one try, so the first
\* that fails leaves the later fields as delivered and sets total_points 0.0
Team(row) ==
    LET id_ok == ~IntFails(row.team_id)
        seed_ok == id_ok /\ ~IntFails(row.seed)
        points_ok == seed_ok /\ ~FloatFails(row.total_points)
    IN  [team_id |-> IF id_ok THEN Num(IntOf(row.team_id)) ELSE Str(row.team_id),
         owner_name |-> row.owner_name,
         seed |-> IF seed_ok THEN Num(IntOf(row.seed)) ELSE Str(row.seed),
         total_points |-> IF points_ok THEN Num(IntOf(row.total_points)) ELSE Num(0)]

\* str < str by code point, on the cells that occur
StrRank(s) ==
    CASE s = "" -> 0 [] s = "1" -> 1 [] s = "2" -> 2 [] s = "2.5" -> 3
      [] s = "3" -> 4 [] OTHER -> 5

\* a < b on two seeds of one type
SeedLess(a, b) == IF a.type = "int" THEN a.n < b.n ELSE StrRank(a.s) < StrRank(b.s)

\* '<' not supported between instances of 'str' and 'int'
SortRaises(teams) ==
    \E i, j \in 1..Len(teams) : teams[i].seed.type # teams[j].seed.type

\* teams.sort(key=lambda t: t.seed): stable
RECURSIVE InsertBySeed(_, _)
InsertBySeed(sorted, t) ==
    IF sorted = <<>> THEN <<t>>
    ELSE IF ~SeedLess(t.seed, sorted[Len(sorted)].seed) THEN Append(sorted, t)
    ELSE Append(InsertBySeed(SubSeq(sorted, 1, Len(sorted) - 1), t),
                sorted[Len(sorted)])

RECURSIVE SortBySeed(_)
SortBySeed(teams) ==
    IF teams = <<>> THEN <<>>
    ELSE InsertBySeed(SortBySeed(SubSeq(teams, 1, Len(teams) - 1)),
                      teams[Len(teams)])

\* get_teams on the rows the gateway delivered: short rows are skipped, the
\* rest constructed and sorted by seed; whatever raises inside the outer try
\* makes the accessor return []
parse_teams(rows) ==
    LET full == SelectSeq(rows, LAMBDA row : ~(row.cells < 7))
        teams == [i \in 1..Len(full) |-> Team(full[i])]
    IN  IF SortRaises(teams) THEN <<>> ELSE SortBySeed(teams)

\* a variant of DraftState.__post_init__ with one try around all four fields
DraftState_SharedTry(current_round, current_pick, draft_started, draft_complete) ==
    IF IntFails(current_round) \/ IntFails(current_pick)
    THEN [current_round |-> 1, current_pick |-> 1,
          draft_started |-> FALSE, draft_complete |-> FALSE]
    ELSE [current_round |-> IntOf(current_round),
          current_pick |-> IntOf(current_pick),
          draft_started |-> Lower(draft_started) \in {"true", "1", "yes"},
          draft_complete |-> Lower(draft_complete) \in {"true", "1", "yes"}]

\* DraftState.__post_init__: each numeric field in a try of its own, the
\* flags from their tokens
DraftState(current_round, current_pick, draft_started, draft_complete) ==
    [current_round |-> IF IntFails(current_round) THEN 1 ELSE IntOf(current_round),
     current_pick |-> IF IntFails(current_pick) THEN 1 ELSE IntOf(current_pick),
     draft_started |-> Lower(draft_started) \in {"true", "1", "yes"},
     draft_complete |-> Lower(draft_complete) \in {"true", "1", "yes"}]

-----------------------------------------------------------------------------
(* The parsers run on every input of a bounded set *)

TeamRows ==
    [team_id : {"1", "2", "x"}, owner_name : {"Ann"}, seed : {"1", "2", "x"},
     total_points : {"3", "x"}, cells : {6, 7}]

NumericCells == {"1", "2", "3", "x", "", "2.5"}

Tokens == {"true", "TRUE", "1", "yes", "Yes", "false", "0", "no", "", "x"}

DraftStateArgs ==
    [current_round : NumericCells, current_pick : NumericCells,
     draft_started : Tokens, draft_complete : Tokens]

NotParsed == [op |-> "none", value |-> <<>>]

PInit ==
    /\ \/ \E rows \in SeqsUpTo(TeamRows, MaxRows) :
             sheet = [table |-> "Teams", rows |-> rows]
       \/ \E args \in DraftStateArgs :
             sheet = [table |-> "Draft_State", args |-> args]
    /\ parse_out = NotParsed
    /\ EngineIdle
    /\ StoreIdle
    /\ IdleBut("parser")

GetTeamsParse ==
    /\ sheet.table = "Teams"
    /\ parse_out = NotParsed
    /\ parse_out' = [op |-> "get_teams", value |-> parse_teams(sheet.rows)]
    /\ UNCHANGED <<sheet, vvars, svars>>
    /\ KeepBut("parser")

ConstructDraftState ==
    /\ sheet.table = "Draft_State"
    /\ parse_out = NotParsed
    /\ parse_out' =
          [op |-> "DraftState",
           value |-> DraftState(sheet.args.current_round, sheet.args.current_pick,
                                sheet.args.draft_started, sheet.args.draft_complete)]
    /\ UNCHANGED <<sheet, vvars, svars>>
    /\ KeepBut("parser")

PNext == GetTeamsParse \/ ConstructDraftState

SpecParse == PInit /\ [][PNext]_vars

-----------------------------------------------------------------------------
(* Claims about parsing *)

\* a row whose cells all convert
WellFormed(row) ==
    /\ row.cells = 7
    /\ row.team_id \in NumberCells /\ row.seed \in NumberCells
    /\ row.total_points \in NumberCells

\* the team such a row stands for
TeamOf(row) ==
    [team_id |-> Num(IntOf(row.team_id)), owner_name |-> row.owner_name,
     seed |-> Num(IntOf(row.seed)), total_points |-> Num(IntOf(row.total_points))]

\* C23: a malformed cell in one row of a table (for example a non-numeric
\* seed or team_id in a Teams row) never makes the whole read fail: every
\* well-formed row of the table is still returned by the read.
C23_WellFormedRowsReturned ==
    parse_out.op = "get_teams" =>
        \A i \in 1..Len(sheet.rows) :
            WellFormed(sheet.rows[i]) =>
                \E j \in 1..Len(parse_out.value) :
                    parse_out.value[j] = TeamOf(sheet.rows[i])

TruthyTokens == {"true", "TRUE", "True", "1", "yes", "Yes", "YES"}

\* C30: DraftState parsing treats each field independently: for every
\* combination of inputs, a current_round or current_pick that fails to
\* parse defaults to 1 without affecting the other fields, and draft_started
\* / draft_complete are true iff their own token is one of true, 1, yes
\* (case-insensitive), whatever the numeric fields contain.
C30_FieldsParsedIndependently ==
    parse_out.op = "DraftState" =>
        LET args == sheet.args
            state == parse_out.value
        IN  /\ state.current_round =
                  IF args.current_round \in NumberCells
                  THEN IntOf(args.current_round) ELSE 1
            /\ state.current_pick =
                  IF args.current_pick \in NumberCells
                  THEN IntOf(args.current_pick) ELSE 1
            /\ state.draft_started <=> args.draft_started \in TruthyTokens
            /\ state.draft_complete <=> args.draft_complete \in TruthyTokens

\* a round that does not parse next to a pick that does, a flag that is set
\* in capitals and one that is not set
C30_Witness ==
    /\ parse_out.op = "DraftState"
    /\ sheet.args = [current_round |-> "x", current_pick |-> "2",
                     draft_started |-> "TRUE", draft_complete |-> "no"]
    /\ parse_out.value = [current_round |-> 1, current_pick |-> 2,
                          draft_started |-> TRUE, draft_complete |-> FALSE]
-----------------------------------------------------------------------------
(* drop_player on rosters that hold a player more than once: for several    *)
(* weeks, for several teams, twice for the same team and week; any one of   *)
(* its remote calls may fail                                                *)

MaxRosterRows == 2

DropSites ==
    {"drop_rosters", "w_delete", "drop_avail", "w_available"} \cup SheetIdFaults

\* the call a fault plan's site stands for
DropCallOf(site) == IF site \in SheetIdFaults THEN "sheet_id" ELSE site

DropWrites == {"w_delete", "w_delete_sheet_0", "w_available"}

DropFaultPlans == {{}} \cup {{s} : s \in DropSites}

DropNames == {"d1", "d2"}

DropWeeks == {CurrentWeek, "WILDCARD", "Week 18"}

RosterRowsOfDrop ==
    {[team_id |-> t, week |-> w, position |-> "QB", player_name |-> n,
      roster_eligibility |-> "QB"] :
        t \in TeamIdsOfLeague, w \in DropWeeks, n \in DropNames}

PoolOfDrop ==
    [i \in 1..2 |->
        [player_id |-> DraftedIds[i], player_name |-> DraftedIds[i],
         position |-> "QB", status |-> "drafted", roster_eligibility |-> ""]]

DInit ==
    /\ Rosters \in SeqsUpTo(RosterRowsOfDrop, MaxRosterRows)
    /\ Available_Players = PoolOfDrop
    /\ Draft_State = StoreAt(0, FALSE).Draft_State
    /\ Draft_Order = StoreAt(0, FALSE).Draft_Order
    /\ faults = 0
    /\ cache = EmptyCache
    /\ served = Served("none", FALSE, <<>>)
    /\ cache_ops = 0
    /\ EngineIdle
    /\ IdleBut("cache")

\* one call of drop_player, from the read of Rosters to the cache eviction
DropPlayerCall ==
    \E team_id \in TeamIdsOfLeague, player_name \in DropNames \cup {"N. Obody"},
       week \in DropWeeks, fp \in DropFaultPlans :
        LET r == drop_player(Store, team_id, player_name, week, fp) IN
        /\ cache_ops < MaxCacheOps
        /\ fp # {} => (faults < MaxFaults /\ \E s \in fp : DidCall(r.calls, DropCallOf(s)))
        /\ cache_ops' = cache_ops + 1
        /\ faults' = IF fp = {} THEN faults ELSE faults + 1
        /\ cache' = IF r.ok THEN Pop(Pop(cache, RosterKey(team_id)), AvailableKey(""))
                    ELSE cache
        /\ served' = Served(IF r.ok THEN "drop_player" ELSE "refused", FALSE, r.calls)
        /\ Rosters' = r.db.Rosters
        /\ Available_Players' = r.db.Available_Players
        /\ Draft_State' = r.db.Draft_State
        /\ Draft_Order' = r.db.Draft_Order
        /\ UNCHANGED vvars
        /\ KeepBut("cache")

DNext == DropPlayerCall

SpecDrop == DInit /\ [][DNext]_vars

-----------------------------------------------------------------------------
(* Claims about drop_player *)

\* the rows that match a call, by the claim's three criteria
MatchingRows(db, team_id, player_name, week) ==
    {i \in 1..Len(db.Rosters) :
        /\ db.Rosters[i].team_id = team_id
        /\ db.Rosters[i].player_name = player_name
        /\ \/ db.Rosters[i].week = week
           \/ {db.Rosters[i].week, week} = {"Wildcard", "WILDCARD"}}

WithoutRow(rows, i) ==
    [k \in 1..(Len(rows) - 1) |-> IF k < i THEN rows[k] ELSE rows[k + 1]]

C37_DeletesOnlyFromRosters ==
    \A team_id \in TeamIdsOfLeague, player_name \in DropNames, week \in DropWeeks,
       fp \in DropFaultPlans :
        LET r == drop_player(Store, team_id, player_name, week, fp) IN
        /\ ~DidCall(r.calls, "w_delete_sheet_0")
        /\ Len(r.db.Available_Players) = Len(Available_Players)
        /\ Len(r.db.Draft_Order) = Len(Draft_Order)
-----------------------------------------------------------------------------
(* A season of mutations run one at a time, every remote call going        *)
(* through: draft picks, free-agency adds and drops for the current week,  *)
(* by either team, of any player of the pool                               *)

\* mutations of one run
MaxMoves == 5

\* picks made before the run starts: none, or the first round
SeasonStarts == {0, NumTeams}

SeasonPlayers == {"d1", "d2", "p1", "p2", "p3"}

\* one call of the client, from its first read to its cache eviction
SeasonMutation(op, r) ==
    /\ cache_ops < MaxMoves
    /\ cache_ops' = cache_ops + 1
    /\ cache' = r.cache
    /\ served' = Served(IF r.ok THEN op ELSE "refused", FALSE, r.calls)
    /\ Rosters' = r.db.Rosters
    /\ Available_Players' = r.db.Available_Players
    /\ Draft_State' = r.db.Draft_State
    /\ Draft_Order' = r.db.Draft_Order
    /\ UNCHANGED <<faults, vvars>>
    /\ KeepBut("cache")

SeasonPick ==
    \E who \in Callers, player_id \in SeasonPlayers :
        SeasonMutation("make_draft_pick",
            cached_make_draft_pick(cache, Store, player_id, who[1], who[2], CurrentWeek))

SeasonAdd ==
    \E who \in Callers, player_id \in SeasonPlayers :
        SeasonMutation("add_player",
            cached_add_player(cache, Store, who[1], player_id, CurrentWeek))

SeasonDrop ==
    \E who \in Callers, i \in 1..Len(Rosters) :
        SeasonMutation("drop_player",
            cached_drop_player(cache, Store, who[1], Rosters[i].player_name, CurrentWeek))

MInit ==
    /\ \E done \in SeasonStarts : StoreIs(StoreAt(done, FALSE))
    /\ faults = 0
    /\ cache = EmptyCache
    /\ served = Served("none", FALSE, <<>>)
    /\ cache_ops = 0
    /\ EngineIdle
    /\ IdleBut("cache")

MNext == SeasonPick \/ SeasonAdd \/ SeasonDrop

SpecSeason == MInit /\ [][MNext]_vars

-----------------------------------------------------------------------------
(* Claims about the rosters and the pool over a season *)

RowsOf(player_name, week) ==
    {i \in 1..Len(Rosters) :
        Rosters[i].player_name = player_name /\ Lower(Rosters[i].week) = Lower(week)}

\* C35: in executions where mutations run one at a time and every remote
\* call succeeds (player names unique), after any sequence of
\* make_draft_pick, add_player and drop_player for one week no player is on
\* the rosters of two teams for that week (nor twice on one), and a player is
\* on some roster of that week iff its Available_Players status is drafted.
C35_OneRosterIffDrafted ==
    \A k \in 1..Len(Available_Players) :
        LET rows == RowsOf(Available_Players[k].player_name, CurrentWeek) IN
        /\ Cardinality(rows) <= 1
        /\ rows # {} <=> Available_Players[k].status = "drafted"

\* a player drafted by one team before the run was dropped and is now on the
\* other team's roster, and a player picked in the run is back in the pool
C35_Witness ==
    /\ \E i \in 1..Len(Rosters) :
          Rosters[i].player_name = "d1" /\ Rosters[i].team_id = 2
    /\ \E i \in 1..Len(Draft_Order), k \in 1..Len(Available_Players) :
          /\ Draft_Order[i].status = "completed"
          /\ Draft_Order[i].player_id = Available_Players[k].player_id
          /\ Available_Players[k].status = "available"
====
